---- MODULE Spec2Model ----
(***************************************************************************)
(* Johnny, a Von-Neumann machine simulator (flxcraft/johnny).              *)
(* State machine of the JohnnyProject data model (RAM, microcode, names),  *)
(* the control unit (microStep / singleMacroStep / runMacroProgram), the   *)
(* RAM row editor and the project import, translated from the JavaScript   *)
(* sources of the newest build channel.                                    *)
(*                                                                         *)
(* JavaScript numbers that can carry a fraction are modelled as records    *)
(* [fin, h]: fin = FALSE is NaN / Infinity, h is the value in halves       *)
(* (h = 3 is 1.5), so that Math.trunc is not the identity.  Register and   *)
(* memory contents are plain integers.                                     *)
(***************************************************************************)
EXTENDS Integers, Sequences, FiniteSets, TLC

\* ---------------------------------------------------------------- constants
RAM_SIZE == 1000

MICROCODE_SIZE == 200

MAX_RAM_VALUE == (MICROCODE_SIZE * 100) - 1

\* JavaScript null (recordMicroCodeAddress, lastAccessedRamAddress)
Null == -1

\* ------------------------------------------------------------------- bounds
\* number of manual register/RAM operations explored in one behaviour
MaxManual == 1

\* number of run-loop timer callbacks that may be pending at once
MaxPending == 1
\* scheduled step() callbacks explored under the run buttons alone
MaxChains == 2

\* number of micro-steps after which a macro-step is treated as not returning
MacroFuel == 40

\* operations of a client or of the RAM table's user in one behaviour
MaxEdits == 1

\* micro-instruction buttons pressed while a macro is recorded, before the
\* last press of the behaviour
MaxRecords == 11

\* ------------------------------------------------------- JavaScript numbers
Num(n) == [fin |-> TRUE, h |-> 2 * n]

Half(h) == [fin |-> TRUE, h |-> h]

NaN == [fin |-> FALSE, h |-> 0]

\* Math.trunc of the number h/2
Trunc(h) == IF h >= 0 THEN h \div 2 ELSE -((-h) \div 2)

\* clamp without the upper bound
clamp_NoUpper(value, min, max) == IF value > min THEN value ELSE min

clamp(value, min, max) ==
    LET lo == IF value > min THEN value ELSE min
    IN  IF lo < max THEN lo ELSE max

\* normalizeInt: toNumberStrict throws on a non-finite value, the catch
\* returns 0; otherwise truncate and clamp.
normalizeInt(value, min, max) ==
    IF ~value.fin THEN 0 ELSE clamp(Trunc(value.h), min, max)

\* getDataHigh that rounds instead of truncating
getDataHigh_Round(data) == (data + 500) \div 1000

\* Math.trunc(data / 1000)
getDataHigh(data) ==
    IF data >= 0 THEN data \div 1000 ELSE -((-data) \div 1000)

\* data % 1000 (JavaScript remainder: sign of the dividend)
getDataLow(data) ==
    IF data >= 0 THEN data % 1000 ELSE -((-data) % 1000)

\* An element of an array of numbers (#microCode, the arrays of a parsed
\* snapshot) is an integer, or a number with a fractional part: n + 1/2 with
\* n >= 0 is kept as FractionBase + n, above every integer that occurs.
FractionBase == 100000

Fraction(n) == FractionBase + n

\* value < k and value > k for an element and an integer k
lessThan(value, k) ==
    IF value < FractionBase THEN value < k ELSE value - FractionBase < k

greaterThan(value, k) ==
    IF value < FractionBase THEN value > k ELSE value - FractionBase >= k

\* ------------------------------------------------------------------- text
\* Texts are strings; a character is a string of length 1.
\* String.prototype.trim
trim(text) ==
    LET isSpace(c) == c = " " \/ c = "\t"
        RECURSIVE trimStart(_)
        trimStart(t) ==
            IF Len(t) > 0 /\ isSpace(SubSeq(t, 1, 1))
            THEN trimStart(SubSeq(t, 2, Len(t))) ELSE t
        RECURSIVE trimEnd(_)
        trimEnd(t) ==
            IF Len(t) > 0 /\ isSpace(SubSeq(t, Len(t), Len(t)))
            THEN trimEnd(SubSeq(t, 1, Len(t) - 1)) ELSE t
    IN  trimEnd(trimStart(text))

\* text.indexOf(c), counted from 1; 0 if c does not occur
indexOf(text, c) ==
    LET at == {i \in 1..Len(text) : SubSeq(text, i, i) = c}
    IN  IF at = {} THEN 0 ELSE CHOOSE i \in at : \A j \in at : i <= j

\* Number(text) of a trimmed text: the empty text is 0, a decimal numeral
\* with an optional sign and an optional fraction is its value (a fraction
\* that is not zero counts as one half), any other text is NaN
toNumber(text) ==
    LET digits == << "0", "1", "2", "3", "4", "5", "6", "7", "8", "9" >>
        isDigit(c) == \E d \in 1..10 : digits[d] = c
        digitValue(c) == (CHOOSE d \in 1..10 : digits[d] = c) - 1
        allDigits(t) ==
            Len(t) > 0 /\ \A i \in 1..Len(t) : isDigit(SubSeq(t, i, i))
        RECURSIVE digitsValue(_)
        digitsValue(t) ==
            IF Len(t) = 0 THEN 0
            ELSE 10 * digitsValue(SubSeq(t, 1, Len(t) - 1))
                 + digitValue(SubSeq(t, Len(t), Len(t)))
        negative == Len(text) > 0 /\ SubSeq(text, 1, 1) = "-"
        unsigned == IF negative THEN SubSeq(text, 2, Len(text)) ELSE text
        dot == indexOf(unsigned, ".")
        whole == IF dot = 0 THEN unsigned ELSE SubSeq(unsigned, 1, dot - 1)
        fraction == IF dot = 0 THEN "0"
                    ELSE SubSeq(unsigned, dot + 1, Len(unsigned))
        halves == 2 * digitsValue(whole)
                  + (IF digitsValue(fraction) = 0 THEN 0 ELSE 1)
    IN  IF text = "" THEN Num(0)
        ELSE IF allDigits(whole) /\ allDigits(fraction)
        THEN Half(IF negative THEN -halves ELSE halves)
        ELSE NaN

\* the lines of a legacy file with the empty ones kept
legacyLines_KeepsEmpty(fileLines) ==
    LET stripComment(line) ==
            LET hash == indexOf(line, "#")
            IN  IF hash = 0 THEN line ELSE SubSeq(line, 1, hash - 1)
    IN  [i \in 1..Len(fileLines) |-> trim(stripComment(fileLines[i]))]

\* the data lines of a legacy file: comments stripped, trimmed, empty
\* lines dropped
legacyLines(fileLines) ==
    LET stripComment(line) ==
            LET hash == indexOf(line, "#")
            IN  IF hash = 0 THEN line ELSE SubSeq(line, 1, hash - 1)
        notEmpty(line) == line # ""
    IN  SelectSeq([i \in 1..Len(fileLines) |->
                      trim(stripComment(fileLines[i]))], notEmpty)

\* ------------------------------------------------------- default project data
DefaultMicroCodeValues ==
    << 8, 2, 3, 5, 0, 0, 0, 0, 0, 0,
       4, 2, 18, 9, 7, 0, 0, 0, 0, 0,
       4, 2, 13, 9, 7, 0, 0, 0, 0, 0,
       4, 2, 14, 9, 7, 0, 0, 0, 0, 0,
       4, 15, 1, 9, 7, 0, 0, 0, 0, 0,
       11, 7, 0, 0, 0, 0, 0, 0, 0, 0,
       4, 2, 18, 10, 9, 7, 0, 0, 0, 0,
       4, 2, 18, 16, 15, 1, 9, 7, 0, 0,
       4, 2, 18, 17, 15, 1, 9, 7, 0, 0,
       4, 12, 15, 1, 9, 7, 0, 0, 0, 0,
       19, 0, 0, 0, 0, 0, 0, 0, 0, 0 >>

\* #initMicroCode: the default values padded with zeros to MICROCODE_SIZE
initMicroCode ==
    [a \in 0..(MICROCODE_SIZE - 1) |->
        IF a + 1 <= Len(DefaultMicroCodeValues)
        THEN DefaultMicroCodeValues[a + 1] ELSE 0]

initInstructionNames ==
    [k \in 0..10 |->
        CASE k = 0 -> "FETCH" [] k = 1 -> "TAKE" [] k = 2 -> "ADD"
          [] k = 3 -> "SUB"   [] k = 4 -> "SAVE" [] k = 5 -> "JMP"
          [] k = 6 -> "TST"   [] k = 7 -> "INC"  [] k = 8 -> "DEC"
          [] k = 9 -> "NULL"  [] OTHER -> "HLT"]

\* #initRam
initRam == [a \in 0..(RAM_SIZE - 1) |-> 0]

\* -------------------------------------------------------------------- state
VARIABLES
    ram,                    \* JohnnyProject.#ram
    microCode,              \* JohnnyProject.#microCode
    instructionNames,       \* JohnnyProject.#instructionNames
    addressBus, dataBus, accumulator,
    programCounter, instructionRegister, microCodeCounter,
    selectedRamAddress, lastAccessedRamAddress,
    isHlt, isMacroRunning,
    isRecording, recordMicroCodeAddress,
    localStorage,           \* the "johnnyProject" item of window.localStorage
    fixRamAfterShift,       \* settings.get("fixRamAfterShift")
    pendingTicks,           \* setTimeout(step, ...) callbacks not yet fired
    nManual,                \* manual operations performed so far
    lastOp                  \* the handler that ran last, and what it reported

vars == << ram, microCode, instructionNames, addressBus, dataBus, accumulator,
           programCounter, instructionRegister, microCodeCounter,
           selectedRamAddress, lastAccessedRamAddress, isHlt, isMacroRunning,
           isRecording, recordMicroCodeAddress, localStorage,
           fixRamAfterShift, pendingTicks, nManual, lastOp >>

projectVars == << ram, microCode, instructionNames >>

registerVars == << addressBus, dataBus, accumulator, programCounter,
                   instructionRegister, microCodeCounter >>

\* ----------------------------------------------------- JohnnyProject setters
\* getRam / setRam / setMicroCode throw on a bad argument; a result record
\* carries ok = FALSE and the unchanged array in that case.  Their value
\* arguments are numbers (typeof value === "number" always holds); the
\* value of setMicroCode may have a fractional part.
getRamThrows(address) == address < 0 \/ address >= RAM_SIZE

getRam(r, address) == r[address]

\* setRam without the check of the value's range
setRam_NoValueCheck(r, address, value) ==
    IF address < 0 \/ address >= RAM_SIZE
    THEN [ok |-> FALSE, ram |-> r]
    ELSE [ok |-> TRUE, ram |-> [r EXCEPT ![address] = value]]

setRam(r, address, value) ==
    IF address < 0 \/ address >= RAM_SIZE
    THEN [ok |-> FALSE, ram |-> r]
    ELSE IF value < 0 \/ value > MAX_RAM_VALUE
    THEN [ok |-> FALSE, ram |-> r]
    ELSE [ok |-> TRUE, ram |-> [r EXCEPT ![address] = value]]

getMicroCode(mc, address) == mc[address]

setMicroCode(mc, address, value) ==
    IF address < 0 \/ address >= MICROCODE_SIZE
    THEN [ok |-> FALSE, microCode |-> mc]
    ELSE IF lessThan(value, 0) \/ greaterThan(value, 19) \/ value = 6
    THEN [ok |-> FALSE, microCode |-> mc]
    ELSE [ok |-> TRUE, microCode |-> [mc EXCEPT ![address] = value]]

\* setInstructionName: the name is stored as given, not trimmed
setInstructionName(names, opCode, name) ==
    IF opCode < 0 \/ opCode >= MICROCODE_SIZE \div 10
    THEN [ok |-> FALSE, instructionNames |-> names]
    ELSE IF trim(name) = "" \/ Len(name) > 5
    THEN [ok |-> FALSE, instructionNames |-> names]
    ELSE [ok |-> TRUE,
          instructionNames |->
              [k \in (DOMAIN names) \cup {opCode} |->
                  IF k = opCode THEN name ELSE names[k]]]

\* ------------------------------------------------------------ machine record
\* The mutable globals a micro-step touches, gathered in one record so that
\* the steps of a handler can be composed.  err and trace are what the
\* handler reported (alert / console) and the micro-ops it executed.
Machine ==
    [ram |-> ram, microCode |-> microCode,
     instructionNames |-> instructionNames, localStorage |-> localStorage,
     addressBus |-> addressBus, dataBus |-> dataBus,
     accumulator |-> accumulator, programCounter |-> programCounter,
     instructionRegister |-> instructionRegister,
     microCodeCounter |-> microCodeCounter,
     selectedRamAddress |-> selectedRamAddress,
     lastAccessedRamAddress |-> lastAccessedRamAddress,
     isHlt |-> isHlt, isMacroRunning |-> isMacroRunning,
     isRecording |-> isRecording,
     recordMicroCodeAddress |-> recordMicroCodeAddress,
     err |-> "none", trace |-> << >>, steps |-> 0]

\* ------------------------------------------------------------ persistence
\* getLastUsedRamAddress: the highest address holding a non-zero word, or -1
getLastUsedRamAddress(r) ==
    LET used == {i \in 0..(RAM_SIZE - 1) : r[i] # 0}
    IN  IF used = {} THEN -1 ELSE CHOOSE i \in used : \A j \in used : j <= i

\* a trim that drops every zero, not only the trailing ones
trimTrailingZeros_EveryZero(array, size) ==
    LET nonZero(value) == value # 0
    IN  SelectSeq([i \in 1..size |-> array[i - 1]], nonZero)

\* #trimTrailingZeros of an array of the given size: the elements up to the
\* last non-zero one, as a sequence
trimTrailingZeros(array, size) ==
    LET used == {i \in 0..(size - 1) : array[i] # 0}
        lastNonZeroIndex ==
            IF used = {} THEN -1 ELSE CHOOSE i \in used : \A j \in used : j <= i
    IN  [i \in 1..(lastNonZeroIndex + 1) |-> array[i - 1]]

\* #toJSON: the document that is written to localStorage and exported
toJSON(m) ==
    [ram |-> trimTrailingZeros(m.ram, RAM_SIZE),
     microCode |-> trimTrailingZeros(m.microCode, MICROCODE_SIZE),
     instructionNames |-> m.instructionNames]

\* the localStorage item: absent, or the document of the last save; full
\* tells that the storage accepts no write (setItem throws)
NoItem ==
    [present |-> FALSE, ram |-> << >>, microCode |-> << >>,
     instructionNames |-> << >>, full |-> FALSE]

Item(doc) ==
    [present |-> TRUE, ram |-> doc.ram, microCode |-> doc.microCode,
     instructionNames |-> doc.instructionNames, full |-> FALSE]

\* #saveProject that keeps the trimmed RAM as the live one
saveProject_TrimsLive(m) ==
    IF m.localStorage.full THEN m
    ELSE [m EXCEPT !.localStorage = Item(toJSON(m)),
                   !.ram = [a \in 0..(Len(toJSON(m).ram) - 1) |-> m.ram[a]]]

\* #saveProject whose failed write is not caught
saveProject_Uncaught(m) ==
    IF m.localStorage.full THEN [m EXCEPT !.err = "throw"]
    ELSE [m EXCEPT !.localStorage = Item(toJSON(m))]

\* #saveProject: a setItem that throws is caught and only logged
saveProject(m) ==
    IF m.localStorage.full THEN m
    ELSE [m EXCEPT !.localStorage = Item(toJSON(m))]

\* project.setRam(address, value, save) on the machine record: a throw is
\* reported in err and leaves the record as it was
projectSetRam(m, address, value, save) ==
    LET w == setRam(m.ram, address, value)
    IN  IF ~w.ok THEN [m EXCEPT !.err = "throw"]
        ELSE IF save THEN saveProject([m EXCEPT !.ram = w.ram])
        ELSE [m EXCEPT !.ram = w.ram]

\* ------------------------------------------------------------- writing.js
\* writeToRam: project.setRam(address, value) with both arguments normalised
writeToRam(m, address, value) ==
    LET a == normalizeInt(address, 0, RAM_SIZE - 1)
        v == normalizeInt(value, 0, MAX_RAM_VALUE)
    IN  projectSetRam(m, a, v, TRUE)

writeToAddressBus(m, value) ==
    [m EXCEPT !.addressBus = normalizeInt(value, 0, RAM_SIZE - 1)]

writeToDataBus(m, value) ==
    [m EXCEPT !.dataBus = normalizeInt(value, 0, MAX_RAM_VALUE)]

writeToAccumulator(m, value) ==
    [m EXCEPT !.accumulator = normalizeInt(value, 0, MAX_RAM_VALUE)]

writeToProgramCounter(m, value) ==
    [m EXCEPT !.programCounter = normalizeInt(value, 0, RAM_SIZE - 1)]

writeToInstructionRegister(m, value) ==
    [m EXCEPT !.instructionRegister = normalizeInt(value, 0, MAX_RAM_VALUE)]

writeToMicroCodeCounter(m, value) ==
    [m EXCEPT !.microCodeCounter = normalizeInt(value, 0, MICROCODE_SIZE - 1)]

stopMacroProgram(m) == [m EXCEPT !.isMacroRunning = FALSE]

\* ------------------------------------------------------------- microstep.js
dbToRamStep(m) ==
    [writeToRam(m, Num(m.addressBus), Num(m.dataBus))
        EXCEPT !.lastAccessedRamAddress = m.addressBus]

ramToDbStep(m) ==
    [writeToDataBus(m, Num(getRam(m.ram, m.addressBus)))
        EXCEPT !.lastAccessedRamAddress = m.addressBus]

dbToInsStep(m) == writeToInstructionRegister(m, Num(m.dataBus))

insToAbStep(m) == writeToAddressBus(m, Num(getDataLow(m.instructionRegister)))

insToMcStep(m) ==
    [writeToMicroCodeCounter(m, Num(getDataHigh(m.instructionRegister) * 10))
        EXCEPT !.selectedRamAddress = m.programCounter]

\* a mc:=0 step that also lets a halted machine go on
nullMcStep_ClearsHalt(m) ==
    [writeToMicroCodeCounter(m, Num(0)) EXCEPT !.isHlt = FALSE]

\* a mc:=0 step that leaves the microcode counter where it is
nullMcStep_Keeps(m) == m

nullMcStep(m) == writeToMicroCodeCounter(m, Num(0))

pcToAbStep(m) == writeToAddressBus(m, Num(m.programCounter))

\* incPcStep that wraps to address 0 after the last address
incPcStep_Wraps(m) ==
    [m EXCEPT !.programCounter = (m.programCounter + 1) % RAM_SIZE]

incPcStep(m) == writeToProgramCounter(m, Num(m.programCounter + 1))

\* a conditional increment that does not look at the accumulator
incPcIfAccZeroStep_Always(m) == incPcStep(m)

incPcIfAccZeroStep(m) == IF m.accumulator = 0 THEN incPcStep(m) ELSE m

insToPcStep(m) ==
    writeToProgramCounter(m, Num(getDataLow(m.instructionRegister)))

nullAccStep(m) == writeToAccumulator(m, Num(0))

\* an addition that wraps around at MAX_RAM_VALUE + 1
addAccStep_Wrap(m) ==
    writeToAccumulator(m, Num((m.accumulator + m.dataBus) % (MAX_RAM_VALUE + 1)))

addAccStep(m) == writeToAccumulator(m, Num(m.accumulator + m.dataBus))

subAccStep(m) == writeToAccumulator(m, Num(m.accumulator - m.dataBus))

accToDbStep(m) == writeToDataBus(m, Num(m.accumulator))

incAccStep(m) == writeToAccumulator(m, Num(m.accumulator + 1))

decAccStep(m) == writeToAccumulator(m, Num(m.accumulator - 1))

dbToAccStep(m) == writeToAccumulator(m, Num(m.dataBus))

stopStep(m) == [m EXCEPT !.isHlt = TRUE]

\* a table with an entry for every id from 0 to 19
MicroInstructionIds_All == 0..19

\* MICRO_INSTRUCTIONS: the ids that have an entry, the exec of an entry and
\* its increment flag
MicroInstructionIds == (0..5) \cup (7..19)

MicroInstructionExec(m, id) ==
    CASE id = 1 -> dbToRamStep(m)
      [] id = 2 -> ramToDbStep(m)
      [] id = 3 -> dbToInsStep(m)
      [] id = 4 -> insToAbStep(m)
      [] id = 5 -> insToMcStep(m)
      [] id = 7 -> nullMcStep(m)
      [] id = 8 -> pcToAbStep(m)
      [] id = 9 -> incPcStep(m)
      [] id = 10 -> incPcIfAccZeroStep(m)
      [] id = 11 -> insToPcStep(m)
      [] id = 12 -> nullAccStep(m)
      [] id = 13 -> addAccStep(m)
      [] id = 14 -> subAccStep(m)
      [] id = 15 -> accToDbStep(m)
      [] id = 16 -> incAccStep(m)
      [] id = 17 -> decAccStep(m)
      [] id = 18 -> dbToAccStep(m)
      [] id = 19 -> stopStep(m)
      [] OTHER -> m

MicroInstructionIncrement(id) == id \in (1..4) \cup (8..18)

\* recordMicroStep that keeps the cursor inside the 10-entry block it is in
recordMicroStep_InsideBlock(m, microStepId) ==
    IF ~m.isRecording \/ m.recordMicroCodeAddress = Null THEN m
    ELSE LET w == setMicroCode(m.microCode, m.recordMicroCodeAddress,
                               microStepId)
         IN  IF w.ok
             THEN [saveProject([m EXCEPT !.microCode = w.microCode])
                     EXCEPT !.recordMicroCodeAddress =
                                IF (@ + 1) % 10 = 0 THEN @ ELSE @ + 1]
             ELSE [m EXCEPT !.err = "throw"]

\* a recordMicroStep that ignores a refused write and advances the cursor
recordMicroStep_IgnoresThrow(m, microStepId) ==
    IF ~m.isRecording \/ m.recordMicroCodeAddress = Null THEN m
    ELSE LET w == setMicroCode(m.microCode, m.recordMicroCodeAddress,
                               microStepId)
         IN  [saveProject([m EXCEPT !.microCode = w.microCode])
                EXCEPT !.recordMicroCodeAddress = @ + 1]

\* record.js recordMicroStep: setMicroCode may throw (cursor out of range);
\* the cursor is advanced only if it did not.
recordMicroStep(m, microStepId) ==
    IF ~m.isRecording \/ m.recordMicroCodeAddress = Null THEN m
    ELSE LET w == setMicroCode(m.microCode, m.recordMicroCodeAddress,
                               microStepId)
         IN  IF w.ok
             THEN [saveProject([m EXCEPT !.microCode = w.microCode])
                     EXCEPT !.recordMicroCodeAddress = @ + 1]
             ELSE [m EXCEPT !.err = "throw"]

\* executeMicroInstruction that advances the counter after a manual step too
executeMicroInstruction_ManualIncrement(m, id, isManual) ==
    IF id \notin MicroInstructionIds
    THEN [stopMacroProgram([m EXCEPT !.isHlt = TRUE])
            EXCEPT !.err = "InvalidMicroOp"]
    ELSE LET m1 == [MicroInstructionExec(m, id)
                      EXCEPT !.trace = Append(@, id)]
             m2 == IF m1.isRecording /\ isManual
                   THEN recordMicroStep(m1, id) ELSE m1
         IN  IF m2.err = "throw" THEN m2
             ELSE IF MicroInstructionIncrement(id)
             THEN writeToMicroCodeCounter(m2, Num(m2.microCodeCounter + 1))
             ELSE m2

executeMicroInstruction(m, id, isManual) ==
    IF id \notin MicroInstructionIds
    THEN [stopMacroProgram([m EXCEPT !.isHlt = TRUE])
            EXCEPT !.err = "InvalidMicroOp"]
    ELSE LET m1 == [MicroInstructionExec(m, id)
                      EXCEPT !.trace = Append(@, id)]
             m2 == IF m1.isRecording /\ isManual
                   THEN recordMicroStep(m1, id) ELSE m1
         IN  IF m2.err = "throw" THEN m2
             ELSE IF MicroInstructionIncrement(id) /\ ~isManual
             THEN writeToMicroCodeCounter(m2, Num(m2.microCodeCounter + 1))
             ELSE m2

\* microStep without the check of the fetched opcode before micro-op 5
microStep_NoFetchCheck(m) ==
    IF m.isHlt THEN [m EXCEPT !.err = "halted"]
    ELSE LET id == getMicroCode(m.microCode, m.microCodeCounter)
         IN  IF id = 0
             THEN [stopMacroProgram([m EXCEPT !.isHlt = TRUE])
                     EXCEPT !.err = "ZeroMicroCode"]
             ELSE executeMicroInstruction(m, id, FALSE)

\* microStep without the early return of a halted machine
microStep_IgnoresHalt(m) ==
    LET id == getMicroCode(m.microCode, m.microCodeCounter)
    IN  IF id = 5 /\ getDataHigh(m.instructionRegister) = 0
        THEN [stopMacroProgram([m EXCEPT !.isHlt = TRUE])
                EXCEPT !.err = "FetchFault"]
        ELSE IF id = 0
        THEN [stopMacroProgram([m EXCEPT !.isHlt = TRUE])
                EXCEPT !.err = "ZeroMicroCode"]
        ELSE executeMicroInstruction(m, id, FALSE)

\* microStep that executes a zero entry as the no-op of the table
microStep_NoZeroCheck(m) ==
    IF m.isHlt THEN [m EXCEPT !.err = "halted"]
    ELSE LET id == getMicroCode(m.microCode, m.microCodeCounter)
         IN  IF id = 5 /\ getDataHigh(m.instructionRegister) = 0
             THEN [stopMacroProgram([m EXCEPT !.isHlt = TRUE])
                     EXCEPT !.err = "FetchFault"]
             ELSE executeMicroInstruction(m, id, FALSE)

microStep(m) ==
    IF m.isHlt THEN [m EXCEPT !.err = "halted"]
    ELSE LET id == getMicroCode(m.microCode, m.microCodeCounter)
         IN  IF id = 5 /\ getDataHigh(m.instructionRegister) = 0
             THEN [stopMacroProgram([m EXCEPT !.isHlt = TRUE])
                     EXCEPT !.err = "FetchFault"]
             ELSE IF id = 0
             THEN [stopMacroProgram([m EXCEPT !.isHlt = TRUE])
                     EXCEPT !.err = "ZeroMicroCode"]
             ELSE executeMicroInstruction(m, id, FALSE)

manualMicroStep(m, id) == executeMicroInstruction(m, id, TRUE)

\* singleMacroStep: do { microStep } while (microCodeCounter != 0 && !isHlt).
\* steps counts the microStep calls; a loop that is still going after
\* MacroFuel calls is reported as err = "hang" (the handler has not returned).
RECURSIVE singleMacroStepLoop(_)
singleMacroStepLoop(m) ==
    LET m1 == [microStep(m) EXCEPT !.steps = @ + 1]
    IN  IF m1.microCodeCounter # 0 /\ ~m1.isHlt
        THEN IF m1.steps >= MacroFuel THEN [m1 EXCEPT !.err = "hang"]
             ELSE singleMacroStepLoop(m1)
        ELSE m1

\* a macro-step that stops after its first micro-step
singleMacroStep_OneStep(m) == [microStep(m) EXCEPT !.steps = @ + 1]

singleMacroStep(m) == singleMacroStepLoop(m)

\* --------------------------------------------------------------- handlers
\* what a handler reports: its name, its argument, the error it raised and
\* the micro-ops it executed
Op(name, arg, m) ==
    [op |-> name, arg |-> arg, val |-> 0, err |-> m.err, trace |-> m.trace,
     steps |-> m.steps]

Apply(m) ==
    /\ ram' = m.ram
    /\ microCode' = m.microCode
    /\ instructionNames' = m.instructionNames
    /\ localStorage' = m.localStorage
    /\ addressBus' = m.addressBus
    /\ dataBus' = m.dataBus
    /\ accumulator' = m.accumulator
    /\ programCounter' = m.programCounter
    /\ instructionRegister' = m.instructionRegister
    /\ microCodeCounter' = m.microCodeCounter
    /\ selectedRamAddress' = m.selectedRamAddress
    /\ lastAccessedRamAddress' = m.lastAccessedRamAddress
    /\ isHlt' = m.isHlt
    /\ isMacroRunning' = m.isMacroRunning
    /\ isRecording' = m.isRecording
    /\ recordMicroCodeAddress' = m.recordMicroCodeAddress

\* the "micro step" button: microStep()
MicroStep ==
    LET m == microStep(Machine)
    IN  /\ Apply(m)
        /\ lastOp' = Op("microStep", 0, m)
        /\ UNCHANGED << fixRamAfterShift, pendingTicks,
                        nManual >>

\* the "macro step" button: singleMacroStep()
MacroStep ==
    LET m == singleMacroStep(Machine)
    IN  /\ m.err # "hang"
        /\ Apply(m)
        /\ lastOp' = Op("macroStep", 0, m)
        /\ UNCHANGED << fixRamAfterShift, pendingTicks,
                        nManual >>

\* runMacroProgram(): refuses when halted or already running; otherwise sets
\* the flag and calls step() once, which runs a macro-step and schedules
\* the next step with setTimeout.  The model explores it while fewer than
\* chains callbacks are scheduled.
runMacroProgramUpTo(chains) ==
    IF isHlt
    THEN /\ lastOp' = Op("run", 0, [Machine EXCEPT !.err = "halted"])
         /\ UNCHANGED << projectVars, localStorage, registerVars,
                         selectedRamAddress,
                         lastAccessedRamAddress, isHlt, isMacroRunning,
                         isRecording, recordMicroCodeAddress,
                         fixRamAfterShift, pendingTicks, nManual >>
    ELSE IF isMacroRunning
    THEN /\ lastOp' = Op("run", 0, [Machine EXCEPT !.err = "alreadyRunning"])
         /\ UNCHANGED << projectVars, localStorage, registerVars,
                         selectedRamAddress,
                         lastAccessedRamAddress, isHlt, isMacroRunning,
                         isRecording, recordMicroCodeAddress,
                         fixRamAfterShift, pendingTicks, nManual >>
    ELSE LET m == singleMacroStep([Machine EXCEPT !.isMacroRunning = TRUE])
         IN  /\ pendingTicks < chains
             /\ m.err # "hang"
             /\ Apply(m)
             /\ pendingTicks' = pendingTicks + 1
             /\ lastOp' = Op("run", 0, m)
             /\ UNCHANGED << fixRamAfterShift, nManual >>

runMacroProgram == runMacroProgramUpTo(MaxPending)

\* a step() callback that does not look at isHlt
Tick_NoHaltCheck ==
    /\ pendingTicks > 0
    /\ IF ~isMacroRunning
       THEN /\ pendingTicks' = pendingTicks - 1
            /\ lastOp' = Op("tick", 0, [Machine EXCEPT !.err = "stopped"])
            /\ UNCHANGED << projectVars, localStorage, registerVars,
                            selectedRamAddress, lastAccessedRamAddress,
                            isHlt, isMacroRunning, isRecording,
                            recordMicroCodeAddress, fixRamAfterShift, nManual >>
       ELSE LET m == singleMacroStep(Machine)
            IN  /\ m.err # "hang"
                /\ Apply(m)
                /\ pendingTicks' = pendingTicks
                /\ lastOp' = Op("tick", 0, m)
                /\ UNCHANGED << fixRamAfterShift, nManual >>

\* a step() callback that does not look at isMacroRunning
Tick_IgnoresStop ==
    /\ pendingTicks > 0
    /\ IF isHlt
       THEN /\ pendingTicks' = pendingTicks - 1
            /\ isMacroRunning' = FALSE
            /\ lastOp' = Op("tick", 0, [Machine EXCEPT !.err = "halted"])
            /\ UNCHANGED << projectVars, localStorage, registerVars,
                            selectedRamAddress, lastAccessedRamAddress,
                            isHlt, isRecording, recordMicroCodeAddress,
                            fixRamAfterShift, nManual >>
       ELSE LET m == singleMacroStep(Machine)
            IN  /\ m.err # "hang"
                /\ Apply(m)
                /\ pendingTicks' = pendingTicks
                /\ lastOp' = Op("tick", 0, m)
                /\ UNCHANGED << fixRamAfterShift, nManual >>

\* a scheduled step() callback of runMacroProgram fires
Tick ==
    /\ pendingTicks > 0
    /\ IF ~isMacroRunning
       THEN /\ pendingTicks' = pendingTicks - 1
            /\ lastOp' = Op("tick", 0, [Machine EXCEPT !.err = "stopped"])
            /\ UNCHANGED << projectVars, localStorage, registerVars,
                         selectedRamAddress,
                            lastAccessedRamAddress, isHlt, isMacroRunning,
                            isRecording, recordMicroCodeAddress,
                            fixRamAfterShift, nManual >>
       ELSE IF isHlt
       THEN /\ pendingTicks' = pendingTicks - 1
            /\ isMacroRunning' = FALSE
            /\ lastOp' = Op("tick", 0, [Machine EXCEPT !.err = "halted"])
            /\ UNCHANGED << projectVars, localStorage, registerVars,
                         selectedRamAddress,
                            lastAccessedRamAddress, isHlt,
                            isRecording, recordMicroCodeAddress,
                            fixRamAfterShift, nManual >>
       ELSE LET m == singleMacroStep(Machine)
            IN  /\ m.err # "hang"
                /\ Apply(m)
                /\ pendingTicks' = pendingTicks
                /\ lastOp' = Op("tick", 0, m)
                /\ UNCHANGED << fixRamAfterShift, nManual >>

\* the "pause" button: stopMacroProgram()
StopMacroProgram ==
    /\ isMacroRunning' = FALSE
    /\ lastOp' = Op("stop", 0, Machine)
    /\ UNCHANGED << projectVars, localStorage, registerVars,
                         selectedRamAddress,
                    lastAccessedRamAddress, isHlt, isRecording,
                    recordMicroCodeAddress, fixRamAfterShift, pendingTicks,
                    nManual >>

resetSimulator(m) ==
    LET m1 == [stopMacroProgram(m) EXCEPT !.isHlt = FALSE]
        m2 == writeToAddressBus(m1, Num(0))
        m3 == writeToDataBus(m2, Num(0))
        m4 == writeToInstructionRegister(m3, Num(0))
        m5 == writeToMicroCodeCounter(m4, Num(0))
        m6 == writeToAccumulator(m5, Num(0))
        m7 == writeToProgramCounter(m6, Num(0))
    IN  [m7 EXCEPT !.selectedRamAddress = 0, !.lastAccessedRamAddress = Null]

ResetSimulator ==
    LET m == resetSimulator(Machine)
    IN  /\ Apply(m)
        /\ lastOp' = Op("reset", 0, m)
        /\ UNCHANGED << fixRamAfterShift, pendingTicks,
                        nManual >>

\* a micro-instruction button: manualMicroStep(id)
ManualIds == (-1)..21

ManualMicroStep(id) ==
    LET m == manualMicroStep(Machine, id)
    IN  /\ nManual < MaxManual
        /\ nManual' = nManual + 1
        /\ Apply(m)
        /\ lastOp' = Op("manualStep", id, m)
        /\ UNCHANGED << fixRamAfterShift, pendingTicks >>

\* what the user may type into a numeric field, after Number(text.trim())
AddressInputs == {NaN, Num(-1), Half(3), Half(1999), Num(1000)}

DataInputs == {NaN, Num(-1), Half(3), Half(39999), Num(20000)}

RamInputs == {NaN, Half(-1), Half(39999), Num(20000)}

\* manualAddressBus(): toNumberStrict and the range check throw into the
\* handler's catch, which only reports
manualAddressBus(m, input) ==
    IF ~input.fin THEN [m EXCEPT !.err = "throw"]
    ELSE IF input.h < 0 \/ input.h >= 2 * RAM_SIZE
    THEN [m EXCEPT !.err = "throw"]
    ELSE writeToAddressBus(m, input)

ManualAddressBus(input) ==
    LET m == manualAddressBus(Machine, input)
    IN  /\ nManual < MaxManual
        /\ nManual' = nManual + 1
        /\ Apply(m)
        /\ lastOp' = Op("manualAddressBus", input.h, m)
        /\ UNCHANGED << fixRamAfterShift, pendingTicks >>

manualDataBus(m, input) ==
    IF ~input.fin THEN [m EXCEPT !.err = "throw"]
    ELSE IF input.h < 0 \/ input.h > 2 * MAX_RAM_VALUE
    THEN [m EXCEPT !.err = "throw"]
    ELSE writeToDataBus(m, input)

ManualDataBus(input) ==
    LET m == manualDataBus(Machine, input)
    IN  /\ nManual < MaxManual
        /\ nManual' = nManual + 1
        /\ Apply(m)
        /\ lastOp' = Op("manualDataBus", input.h, m)
        /\ UNCHANGED << fixRamAfterShift, pendingTicks >>

\* manualRamInput(): writes the RAM word at the selected row and moves the
\* selection to the next row, wrapping around
manualRamInput(m, input) ==
    IF ~input.fin THEN [m EXCEPT !.err = "throw"]
    ELSE IF input.h < 0 \/ input.h > 2 * MAX_RAM_VALUE
    THEN [m EXCEPT !.err = "throw"]
    ELSE [writeToRam(m, Num(m.selectedRamAddress), input)
            EXCEPT !.selectedRamAddress = (m.selectedRamAddress + 1) % RAM_SIZE]

ManualRamInput(input) ==
    LET m == manualRamInput(Machine, input)
    IN  /\ nManual < MaxManual
        /\ nManual' = nManual + 1
        /\ Apply(m)
        /\ lastOp' = Op("manualRamInput", input.h, m)
        /\ UNCHANGED << fixRamAfterShift, pendingTicks >>

\* ------------------------------------------------- the control unit (Spec)
\* RAM images the constructor can have loaded from localStorage (a first
\* visit finds no item and keeps the empty RAM): a list of words from
\* address 0 and one word at the last address
RamImage(words, lastWord) ==
    [a \in 0..(RAM_SIZE - 1) |->
        IF a + 1 <= Len(words) THEN words[a + 1]
        ELSE IF a = RAM_SIZE - 1 THEN lastWord ELSE 0]

Programs ==
    { initRam,
      \* TAKE 4; ADD 4; SAVE 5; HLT; data 19000
      RamImage(<< 1004, 2004, 4005, 10000, 19000 >>, 0),
      \* JMP 999; at 999: NULL 998
      RamImage(<< 5999 >>, 9998),
      \* NULL 4; TST 4; HLT; an unprogrammed opcode; data 1
      RamImage(<< 9004, 6004, 10000, 11000, 1 >>, 0) }

NoOp ==
    [op |-> "init", arg |-> 0, val |-> 0, err |-> "none", trace |-> << >>,
     steps |-> 0]

Init ==
    /\ ram \in Programs
    /\ microCode = initMicroCode
    /\ instructionNames = initInstructionNames
    /\ addressBus = 0
    /\ dataBus = 0
    /\ accumulator = 0
    /\ programCounter = 0
    /\ instructionRegister = 0
    /\ microCodeCounter = 0
    /\ selectedRamAddress = 0
    /\ lastAccessedRamAddress = Null
    /\ isHlt = FALSE
    /\ isMacroRunning = FALSE
    /\ isRecording = FALSE
    /\ recordMicroCodeAddress = Null
    /\ localStorage =
         IF ram = initRam THEN NoItem
         ELSE Item(toJSON([ram |-> ram, microCode |-> microCode,
                           instructionNames |-> instructionNames]))
    /\ fixRamAfterShift = TRUE
    /\ pendingTicks = 0
    /\ nManual = 0
    /\ lastOp = NoOp

\* the manual steps explored while the run loop is active: the ids without
\* a table entry, the inert 0, the two jumps, a RAM write, a saturating
\* addition and stop
RunManualIds == {-1, 0, 5, 6, 7, 9, 13, 19, 20}

Next ==
    \/ MicroStep
    \/ MacroStep
    \/ runMacroProgram
    \/ Tick
    \/ StopMacroProgram
    \/ ResetSimulator
    \/ \E id \in RunManualIds : ManualMicroStep(id)

Spec == Init /\ [][Next]_vars

\* A pending step() callback is eventually run by the browser's timer.  The
\* fairness needed is only that of the callbacks that find the loop stopped
\* or the machine halted (it is implied by the fairness of every callback).
TickIdle == (~isMacroRunning \/ isHlt) /\ Tick

FairSpec == Init /\ [][Next]_vars /\ WF_vars(TickIdle)

\* ------------------------------------------- the run buttons (ChainSpec)
\* run, pause and reset pressed in any order while callbacks are scheduled
ChainNext ==
    \/ runMacroProgramUpTo(MaxChains)
    \/ Tick
    \/ StopMacroProgram
    \/ ResetSimulator

ChainSpec == Init /\ [][ChainNext]_vars

\* ---------------------------------------- manual operation (ManualSpec)
\* every manual step and every manual input, between micro- and macro-steps
ManualNext ==
    \/ MicroStep
    \/ MacroStep
    \/ ResetSimulator
    \/ \E id \in ManualIds : ManualMicroStep(id)
    \/ \E input \in AddressInputs : ManualAddressBus(input)
    \/ \E input \in DataInputs : ManualDataBus(input)
    \/ \E input \in RamInputs : ManualRamInput(input)

ManualSpec == Init /\ [][ManualNext]_vars

\* ----------------------------- register transfers (DecodeSpec, AluSpec)
\* The machine after construction (the RAM is the stored one) with
\* InstructionRegister, Accumulator and DataBus loaded by manual data-bus
\* inputs and the transfers db->ins (3) and db->acc (18): every value of
\* the range can be loaded.
LoadedInit(rams, irs, accs, dbs) ==
    /\ ram \in rams
    /\ microCode = initMicroCode
    /\ instructionNames = initInstructionNames
    /\ addressBus = 0
    /\ dataBus \in dbs
    /\ accumulator \in accs
    /\ programCounter = 0
    /\ instructionRegister \in irs
    /\ microCodeCounter = 0
    /\ selectedRamAddress = 0
    /\ lastAccessedRamAddress = Null
    /\ isHlt = FALSE
    /\ isMacroRunning = FALSE
    /\ isRecording = FALSE
    /\ recordMicroCodeAddress = Null
    /\ localStorage =
         IF ram = initRam THEN NoItem
         ELSE Item(toJSON([ram |-> ram, microCode |-> microCode,
                           instructionNames |-> instructionNames]))
    /\ fixRamAfterShift = TRUE
    /\ pendingTicks = 0
    /\ nManual = 0
    /\ lastOp = NoOp

DecodeInit == LoadedInit({initRam}, 0..MAX_RAM_VALUE, {0}, {0})

\* the micro-instructions that decode the instruction register
DecodeNext == \E id \in {4, 5, 11} : ManualMicroStep(id)

DecodeSpec == DecodeInit /\ [][DecodeNext]_vars

\* operands at and next to the bounds of the range
AluValues == {0, 1, 2, 9999, 10000, 19000, MAX_RAM_VALUE - 1, MAX_RAM_VALUE}

AluInit == LoadedInit({initRam}, {0}, AluValues, AluValues)

\* the micro-instructions of the accumulator's arithmetic
AluNext == \E id \in {13, 14, 16, 17} : ManualMicroStep(id)

AluSpec == AluInit /\ [][AluNext]_vars

\* ------------------------------------------- program counter (PcSpec)
\* The stored programs: JMP 999 with TST 998 at address 999 (the tested
\* word is 0); JMP 999 with TST 0 at address 999 (the tested word is not
\* 0); TST 2 on a zero word; TST 1 on a non-zero word.  The accumulator
\* has been loaded by a manual data-bus input and db->acc.
PcInit ==
    LoadedInit({RamImage(<< 5999 >>, 6998), RamImage(<< 5999 >>, 6000),
                RamImage(<< 6002, 10000 >>, 0), RamImage(<< 6001, 10000 >>, 0)},
               {0}, {0, 1}, {0})

PcNext ==
    \/ MicroStep
    \/ \E id \in {9, 10} : ManualMicroStep(id)

PcSpec == PcInit /\ [][PcNext]_vars

\* ------------------------------------------------------------- record.js
\* startRecording without the check that the address starts a block
startRecording_AnyAddress(m, addressText, nameText) ==
    LET address == toNumber(trim(addressText))
        instructionName == trim(nameText)
        opcode == (address.h \div 2) \div 10
        named == setInstructionName(m.instructionNames, opcode,
                                    instructionName)
        failed == [m EXCEPT !.isRecording = FALSE,
                            !.recordMicroCodeAddress = Null,
                            !.err = "RecordingConfigError"]
    IN  IF ~address.fin THEN failed
        ELSE IF address.h < 0 \/ address.h > 2 * (MICROCODE_SIZE - 10)
        THEN failed
        ELSE IF Len(instructionName) = 0 THEN failed
        ELSE IF Len(instructionName) > 5 THEN failed
        ELSE IF ~named.ok THEN failed
        ELSE saveProject([m EXCEPT
                 !.recordMicroCodeAddress = address.h \div 2,
                 !.instructionNames = named.instructionNames])

\* startRecording: the address and name fields are validated, the name is
\* stored for the block's opcode; any throw ends in the catch, which
\* switches the recorder off
startRecording(m, addressText, nameText) ==
    LET address == toNumber(trim(addressText))
        instructionName == trim(nameText)
        opcode == (address.h \div 2) \div 10
        named == setInstructionName(m.instructionNames, opcode,
                                    instructionName)
        failed == [m EXCEPT !.isRecording = FALSE,
                            !.recordMicroCodeAddress = Null,
                            !.err = "RecordingConfigError"]
    IN  IF ~address.fin THEN failed
        ELSE IF address.h < 0 \/ address.h > 2 * (MICROCODE_SIZE - 10)
        THEN failed
        ELSE IF address.h % 20 # 0 THEN failed
        ELSE IF Len(instructionName) = 0 THEN failed
        ELSE IF Len(instructionName) > 5 THEN failed
        ELSE IF ~named.ok THEN failed
        ELSE saveProject([m EXCEPT
                 !.recordMicroCodeAddress = address.h \div 2,
                 !.instructionNames = named.instructionNames])

\* a record button that leaves the cursor where it is when it switches the
\* recorder off
toggleRecording_KeepsCursor(m, addressText, nameText) ==
    IF ~m.isRecording
    THEN startRecording([m EXCEPT !.isRecording = TRUE], addressText,
                        nameText)
    ELSE [m EXCEPT !.isRecording = FALSE]

\* toggleRecording: the record button
toggleRecording(m, addressText, nameText) ==
    IF ~m.isRecording
    THEN startRecording([m EXCEPT !.isRecording = TRUE], addressText,
                        nameText)
    ELSE [m EXCEPT !.isRecording = FALSE, !.recordMicroCodeAddress = Null]

\* what the user may have typed into the record panel's address field
\* (blocks 0, 11, 18 and 19; not a multiple of 10; a fraction; beyond the
\* last block; negative; not a number) and into its name field
RecordAddressTexts ==
    << "0", " 110 ", "180", "190", "185", "10.5", "200", "-10", "abc" >>

RecordNameTexts == << "MUL", " AB ", "ABCDE", "", "   ", "ABCDEF" >>

ToggleRecording(i, j) ==
    LET m == toggleRecording(Machine, RecordAddressTexts[i],
                             RecordNameTexts[j])
    IN  /\ Apply(m)
        /\ lastOp' = [Op("toggleRecording", i, m) EXCEPT !.val = j]
        /\ UNCHANGED << fixRamAfterShift, pendingTicks, nManual >>

\* ------------------------------------- project and RAM table (ProjectSpec)
\* a client's call project.setRam(address, value)
SetRamAddresses == {-1, 0, RAM_SIZE - 1, RAM_SIZE}

SetRamValues == {-1, 7, MAX_RAM_VALUE, MAX_RAM_VALUE + 1}

SetRam(address, value) ==
    LET m == projectSetRam(Machine, address, value, TRUE)
    IN  /\ nManual < MaxEdits
        /\ nManual' = nManual + 1
        /\ Apply(m)
        /\ lastOp' = [Op("setRam", address, m) EXCEPT !.val = value]
        /\ UNCHANGED << fixRamAfterShift, pendingTicks >>

\* A parsed snapshot: every field is a JSON value with its type t; v holds
\* the elements of an array or the entries of an object.
Number(n) == [t |-> "number", v |-> n]

Text == [t |-> "string", v |-> 0]

Array(seq) == [t |-> "array", v |-> seq]

Numbers(seq) == Array([i \in 1..Len(seq) |-> Number(seq[i])])

Object(entries) == [t |-> "object", v |-> entries]

Missing == [t |-> "undefined", v |-> << >>]

Snapshot(r, mc, names) ==
    [parsed |-> TRUE, ram |-> r, microCode |-> mc, instructionNames |-> names]

\* the array padded with zeros up to size
padded(array, size) ==
    array \o [i \in 1..(size - Len(array)) |-> Number(0)]

validRamValue(val) ==
    val.t = "number" /\ val.v >= 0 /\ val.v <= MAX_RAM_VALUE

validMicroCodeValue(val) ==
    /\ val.t = "number"
    /\ ~lessThan(val.v, 0)
    /\ ~greaterThan(val.v, 19)
    /\ val.v # 6

\* a padded array as the array the project keeps
asArray(paddedArray, size) == [a \in 0..(size - 1) |-> paddedArray[a + 1].v]

\* #fromJSON: each field is validated and assigned in turn; a throw leaves
\* the fields assigned before it
fromJSON(m, json) ==
    IF json.ram.t # "array" THEN [m EXCEPT !.err = "throw"]
    ELSE
    LET paddedRam == padded(json.ram.v, RAM_SIZE) IN
    IF ~(/\ Len(paddedRam) = RAM_SIZE
         /\ \A i \in 1..Len(paddedRam) : validRamValue(paddedRam[i]))
    THEN [m EXCEPT !.err = "throw"]
    ELSE
    LET m1 == [m EXCEPT !.ram = asArray(paddedRam, RAM_SIZE)] IN
    IF json.microCode.t # "array" THEN [m1 EXCEPT !.err = "throw"]
    ELSE
    LET paddedMicroCode == padded(json.microCode.v, MICROCODE_SIZE) IN
    IF ~(/\ Len(paddedMicroCode) = MICROCODE_SIZE
         /\ \A i \in 1..Len(paddedMicroCode) :
                validMicroCodeValue(paddedMicroCode[i]))
    THEN [m1 EXCEPT !.err = "throw"]
    ELSE
    LET m2 == [m1 EXCEPT !.microCode =
                            asArray(paddedMicroCode, MICROCODE_SIZE)] IN
    IF json.instructionNames.t # "object" THEN [m2 EXCEPT !.err = "throw"]
    ELSE [m2 EXCEPT !.instructionNames = json.instructionNames.v]

\* import(jsonString): JSON.parse, #fromJSON and #saveProject inside one try
import(m, json) ==
    IF ~json.parsed THEN [m EXCEPT !.err = "throw"]
    ELSE LET m1 == fromJSON(m, json)
         IN  IF m1.err = "throw" THEN m1 ELSE saveProject(m1)

\* export(): JSON.stringify of #toJSON(); every number is written as a
\* decimal numeral
export(m) ==
    LET doc == toJSON(m)
        written(n) == IF n < FractionBase THEN ToString(n)
                      ELSE ToString(n - FractionBase) \o ".5"
    IN  [ram |-> [i \in 1..Len(doc.ram) |-> written(doc.ram[i])],
         microCode |-> [i \in 1..Len(doc.microCode) |->
                           written(doc.microCode[i])],
         instructionNames |-> doc.instructionNames]

\* JSON.parse of an exported text
parse(text) ==
    LET read(numeral) ==
            LET value == toNumber(numeral)
            IN  IF value.h % 2 = 0 THEN value.h \div 2
                ELSE Fraction(value.h \div 2)
        numbers(numerals) ==
            Numbers([i \in 1..Len(numerals) |-> read(numerals[i])])
    IN  Snapshot(numbers(text.ram), numbers(text.microCode),
                 Object(text.instructionNames))

\* the "upload project" button: project.import(fileContent), which catches
\* its own errors, and then resetSimulator()
uploadProjectFromFile(m, json) ==
    LET m1 == import(m, json)
    IN  [resetSimulator(m1) EXCEPT !.err = m1.err]

ValidMicroCode == Numbers(DefaultMicroCodeValues \o << 19 >>)

ValidNames ==
    Object([k \in 0..11 |-> IF k = 11 THEN "MUL" ELSE initInstructionNames[k]])

NoSnapshot ==
    [parsed |-> FALSE, ram |-> Missing, microCode |-> Missing,
     instructionNames |-> Missing]

\* the files that are uploaded: a valid snapshot, and snapshots with one
\* invalid field each (the text is not JSON; no ram; a ram value out of
\* range; a ram element that is not a number; a ram array that is too long;
\* no microCode; a microCode value 6; a microCode array that is too long;
\* no instructionNames; a microCode value 5.5; instructionNames with a
\* name of 8 characters and an opcode 25)
Snapshots ==
    << Snapshot(Numbers(<< 1002, 10000, 3 >>), ValidMicroCode, ValidNames),
       NoSnapshot,
       Snapshot(Missing, ValidMicroCode, ValidNames),
       Snapshot(Numbers(<< 1002, MAX_RAM_VALUE + 1 >>), ValidMicroCode,
                ValidNames),
       Snapshot(Array(<< Number(1002), Text >>), ValidMicroCode, ValidNames),
       Snapshot(Numbers([i \in 1..(RAM_SIZE + 1) |-> 0]), ValidMicroCode,
                ValidNames),
       Snapshot(Numbers(<< 2001, 10000 >>), Missing, ValidNames),
       Snapshot(Numbers(<< 3001, 10000 >>), Numbers(<< 8, 2, 3, 6 >>),
                ValidNames),
       Snapshot(Numbers(<< 4001, 10000 >>),
                Numbers([i \in 1..(MICROCODE_SIZE + 1) |-> 0]), ValidNames),
       Snapshot(Numbers(<< 5001, 10000 >>), ValidMicroCode, Missing),
       Snapshot(Numbers(<< 6001, 10000 >>),
                Numbers(<< 8, 2, 3, Fraction(5) >>), ValidNames),
       Snapshot(Numbers(<< 7001, 10000 >>), ValidMicroCode,
                Object([k \in {11, 25} |->
                           IF k = 11 THEN "MULTIPLY" ELSE "X"])) >>

UploadProject(i) ==
    LET m == uploadProjectFromFile(Machine, Snapshots[i])
    IN  /\ nManual < MaxEdits
        /\ nManual' = nManual + 1
        /\ Apply(m)
        /\ lastOp' = Op("import", i, m)
        /\ UNCHANGED << fixRamAfterShift, pendingTicks >>

\* a click on a row of the RAM table
SelectAddresses == {0, 2, RAM_SIZE - 1}

SelectRamRow(address) ==
    /\ selectedRamAddress' = address
    /\ lastOp' = Op("select", address, Machine)
    /\ UNCHANGED << projectVars, localStorage, registerVars,
                    lastAccessedRamAddress, isHlt, isMacroRunning,
                    isRecording, recordMicroCodeAddress, fixRamAfterShift,
                    pendingTicks, nManual >>

\* the settings modal: settings.set("fixRamAfterShift", value)
SetFixRamAfterShift(value) ==
    /\ fixRamAfterShift' = value
    /\ lastOp' = Op("setFix", IF value THEN 1 ELSE 0, Machine)
    /\ UNCHANGED << projectVars, localStorage, registerVars,
                    selectedRamAddress, lastAccessedRamAddress, isHlt,
                    isMacroRunning, isRecording, recordMicroCodeAddress,
                    pendingTicks, nManual >>

\* fixOperandAfterRamShift that stores the rewritten words unchecked
fixOperandAfterRamShift_Unchecked(m, startAddress, delta, fix) ==
    IF ~fix THEN m
    ELSE saveProject([m EXCEPT !.ram =
             [a \in 0..(RAM_SIZE - 1) |->
                 LET opcode == getDataHigh(m.ram[a])
                     operand == getDataLow(m.ram[a])
                 IN  IF opcode # 0 /\ opcode # 10 /\ operand >= startAddress
                     THEN (opcode * 1000) + (operand + delta)
                     ELSE m.ram[a]]])

\* fixOperandAfterRamShift: every word is read and rewritten at its own
\* address, in ascending order; the first setRam that throws ends the loop
\* and leaves the words rewritten before it
fixOperandAfterRamShift(m, startAddress, delta, fix) ==
    IF ~fix THEN m
    ELSE
    LET opcode(a) == getDataHigh(getRam(m.ram, a))
        operand(a) == getDataLow(getRam(m.ram, a))
        rewritten(a) == (opcode(a) * 1000) + (operand(a) + delta)
        toFix == {a \in 0..(RAM_SIZE - 1) :
                    opcode(a) # 0 /\ opcode(a) # 10 /\ operand(a) >= startAddress}
        throwing == {a \in toFix : ~setRam(m.ram, a, rewritten(a)).ok}
        done == {a \in toFix : \A b \in throwing : a < b}
        m1 == IF done = {} THEN m
              ELSE saveProject([m EXCEPT !.ram =
                     [a \in 0..(RAM_SIZE - 1) |->
                        IF a \in done THEN rewritten(a) ELSE m.ram[a]]])
    IN  IF throwing = {} THEN m1 ELSE [m1 EXCEPT !.err = "throw"]

\* insertRamRowAbove that shifts from the selected row upwards: every row is
\* overwritten by the (already copied) word of the row before it
insertRamRowAbove_Ascending(m, fix) ==
    LET lastUsedAddress == getLastUsedRamAddress(m.ram)
        selected == m.selectedRamAddress
    IN  IF lastUsedAddress = -1 THEN m
        ELSE IF lastUsedAddress >= RAM_SIZE - 1
        THEN [m EXCEPT !.err = "MemoryFull"]
        ELSE LET shifted ==
                   [a \in 0..(RAM_SIZE - 1) |->
                      IF a > selected /\ a <= lastUsedAddress + 1
                      THEN m.ram[selected] ELSE m.ram[a]]
                 m1 == projectSetRam([m EXCEPT !.ram = shifted],
                                     selected, 0, TRUE)
             IN  fixOperandAfterRamShift(m1, selected, 1, fix)

\* insertRamRowAbove without the check for a full RAM: the last word is
\* shifted out
insertRamRowAbove_NoFullCheck(m, fix) ==
    LET lastUsedAddress == getLastUsedRamAddress(m.ram)
        selected == m.selectedRamAddress
    IN  IF lastUsedAddress = -1 THEN m
        ELSE LET shifted ==
                   [a \in 0..(RAM_SIZE - 1) |->
                      IF a > selected /\ a <= lastUsedAddress + 1
                      THEN m.ram[a - 1] ELSE m.ram[a]]
                 m1 == projectSetRam([m EXCEPT !.ram = shifted],
                                     selected, 0, TRUE)
             IN  fixOperandAfterRamShift(m1, selected, 1, fix)

\* insertRamRowAbove: the words from the selected row to the last used one
\* move one row down and the selected row is cleared
insertRamRowAbove(m, fix) ==
    LET lastUsedAddress == getLastUsedRamAddress(m.ram)
        selected == m.selectedRamAddress
    IN  IF lastUsedAddress = -1 THEN m
        ELSE IF lastUsedAddress >= RAM_SIZE - 1
        THEN [m EXCEPT !.err = "MemoryFull"]
        ELSE LET shifted ==
                   [a \in 0..(RAM_SIZE - 1) |->
                      IF a > selected /\ a <= lastUsedAddress + 1
                      THEN m.ram[a - 1] ELSE m.ram[a]]
                 m1 == projectSetRam([m EXCEPT !.ram = shifted],
                                     selected, 0, TRUE)
             IN  fixOperandAfterRamShift(m1, selected, 1, fix)

\* deleteRamRow that does not clear the last used row after the shift
deleteRamRow_KeepsLast(m, fix) ==
    LET lastUsedAddress == getLastUsedRamAddress(m.ram)
        selected == m.selectedRamAddress
    IN  IF lastUsedAddress = -1 THEN m
        ELSE LET shifted ==
                   [a \in 0..(RAM_SIZE - 1) |->
                      IF a >= selected /\ a < lastUsedAddress
                      THEN m.ram[a + 1] ELSE m.ram[a]]
             IN  fixOperandAfterRamShift(saveProject([m EXCEPT !.ram = shifted]),
                                         selected, -1, fix)

\* deleteRamRow: the words below the selected row up to the last used one
\* move one row up and the last used row is cleared
deleteRamRow(m, fix) ==
    LET lastUsedAddress == getLastUsedRamAddress(m.ram)
        selected == m.selectedRamAddress
    IN  IF lastUsedAddress = -1 THEN m
        ELSE LET shifted ==
                   [a \in 0..(RAM_SIZE - 1) |->
                      IF a >= selected /\ a < lastUsedAddress
                      THEN m.ram[a + 1] ELSE m.ram[a]]
                 m1 == projectSetRam([m EXCEPT !.ram = shifted],
                                     lastUsedAddress, 0, TRUE)
             IN  fixOperandAfterRamShift(m1, selected, -1, fix)

InsertRamRowAbove ==
    LET m == insertRamRowAbove(Machine, fixRamAfterShift)
    IN  /\ nManual < MaxEdits
        /\ nManual' = nManual + 1
        /\ Apply(m)
        /\ lastOp' = Op("insertRow", selectedRamAddress, m)
        /\ UNCHANGED << fixRamAfterShift, pendingTicks >>

DeleteRamRow ==
    LET m == deleteRamRow(Machine, fixRamAfterShift)
    IN  /\ nManual < MaxEdits
        /\ nManual' = nManual + 1
        /\ Apply(m)
        /\ lastOp' = Op("deleteRow", selectedRamAddress, m)
        /\ UNCHANGED << fixRamAfterShift, pendingTicks >>

ProjectNext ==
    \/ \E address \in SetRamAddresses, value \in SetRamValues :
          SetRam(address, value)
    \/ \E i \in 1..Len(Snapshots) : UploadProject(i)
    \/ \E address \in SelectAddresses : SelectRamRow(address)
    \/ \E value \in BOOLEAN : SetFixRamAfterShift(value)
    \/ InsertRamRowAbove
    \/ DeleteRamRow

ProjectSpec == Init /\ [][ProjectNext]_vars

\* --------------------------------------------- writers of the RAM (RamSpec)
\* importLegacyRam: the RAM is cleared and the data lines are stored from
\* address 0 on, an invalid one as 0; lines beyond RAM_SIZE are ignored
importLegacyRam(m, fileLines) ==
    LET lines == legacyLines(fileLines)
        invalid(value) ==
            \/ ~value.fin
            \/ value.h % 2 # 0
            \/ value.h < 0
            \/ value.h > 2 * MAX_RAM_VALUE
        stored(value) == IF invalid(value) THEN 0 ELSE value.h \div 2
    IN  saveProject([m EXCEPT !.ram =
            [a \in 0..(RAM_SIZE - 1) |->
                IF a >= Len(lines) THEN 0
                ELSE stored(toNumber(lines[a + 1]))]])

\* the "upload RAM" button: importLegacyRam and resetSimulator
uploadRamAsFile(m, fileLines) == resetSimulator(importLegacyRam(m, fileLines))

\* the .ram files that are uploaded: a program with comments, blank lines
\* and tokens that are not valid (20000, -1, 1.5, a word); a file of
\* RAM_SIZE + 1 lines; an empty file
RamFiles ==
    << << "# program", "9006 # NULL 6", "", "19999", "20000", "-1", "1.5",
          "abc", "  7  " >>,
       [i \in 1..(RAM_SIZE + 1) |-> ToString(i % 10)],
       << >> >>

UploadRam(i) ==
    LET m == uploadRamAsFile(Machine, RamFiles[i])
    IN  /\ nManual < MaxEdits
        /\ nManual' = nManual + 1
        /\ Apply(m)
        /\ lastOp' = Op("importLegacyRam", i, m)
        /\ UNCHANGED << fixRamAfterShift, pendingTicks >>

resetRam(m) == saveProject([m EXCEPT !.ram = initRam])

\* the "reset RAM" button
ResetRamToEmpty ==
    LET m == resetRam(Machine)
    IN  /\ nManual < MaxEdits
        /\ nManual' = nManual + 1
        /\ Apply(m)
        /\ lastOp' = Op("resetRam", 0, m)
        /\ UNCHANGED << fixRamAfterShift, pendingTicks >>

\* the stored RAM is empty or holds the largest word, whose operand cannot
\* be increased; the data bus holds the largest word
RamInit ==
    LET \* an unprogrammed opcode 19 with operand 999; ADD 2; HLT
        stored == RamImage(<< MAX_RAM_VALUE, 2002, 10000 >>, 0)
    IN  LoadedInit({initRam, stored}, {0}, {0}, {MAX_RAM_VALUE})

RamNext ==
    \/ ProjectNext
    \/ \E i \in 1..Len(RamFiles) : UploadRam(i)
    \/ ResetRamToEmpty
    \/ ManualMicroStep(1)
    \/ \E input \in RamInputs : ManualRamInput(input)

RamSpec == RamInit /\ [][RamNext]_vars

\* ------------------------------- microcode and names (MicroCodeSpec)
\* a client's call project.setMicroCode(address, value)
SetMicroCode(address, value) ==
    LET w == setMicroCode(microCode, address, value)
        m == IF w.ok THEN saveProject([Machine EXCEPT !.microCode = w.microCode])
             ELSE [Machine EXCEPT !.err = "throw"]
    IN  /\ nManual < MaxEdits
        /\ nManual' = nManual + 1
        /\ Apply(m)
        /\ lastOp' = [Op("setMicroCode", address, m) EXCEPT !.val = value]
        /\ UNCHANGED << fixRamAfterShift, pendingTicks >>

\* a client's call project.setInstructionName(opCode, name), and the names
\* that are passed
SetNameTexts == << "MUL", " AB  ", "", "  ", "ABCDEF" >>

SetInstructionName(opCode, j) ==
    LET w == setInstructionName(instructionNames, opCode, SetNameTexts[j])
        m == IF w.ok
             THEN saveProject([Machine EXCEPT
                                  !.instructionNames = w.instructionNames])
             ELSE [Machine EXCEPT !.err = "throw"]
    IN  /\ nManual < MaxEdits
        /\ nManual' = nManual + 1
        /\ Apply(m)
        /\ lastOp' = [Op("setInstructionName", opCode, m) EXCEPT !.val = j]
        /\ UNCHANGED << fixRamAfterShift, pendingTicks >>

\* resetMicroCode: #initMicroCode, which also installs the default names
resetMicroCode(m) ==
    saveProject([m EXCEPT !.microCode = initMicroCode,
                          !.instructionNames = initInstructionNames])

\* the "reset microcode" button
ResetMicrocodeToDefault ==
    LET m == resetMicroCode(Machine)
    IN  /\ nManual < MaxEdits
        /\ nManual' = nManual + 1
        /\ Apply(m)
        /\ lastOp' = Op("resetMicroCode", 0, m)
        /\ UNCHANGED << fixRamAfterShift, pendingTicks >>

\* importLegacyMicroCode that pads a file with too few lines with zeros
importLegacyMicroCode_Padded(m, fileLines) ==
    LET lines == legacyLines(fileLines)
        invalid(value) ==
            \/ ~value.fin
            \/ value.h % 2 # 0
            \/ value.h < 0
            \/ value.h > 2 * 19
            \/ value.h = 2 * 6
        stored(value) == IF invalid(value) THEN 0 ELSE value.h \div 2
        named == IF Len(lines) > MICROCODE_SIZE
                 THEN Len(lines) - MICROCODE_SIZE ELSE 0
    IN  saveProject([m EXCEPT
            !.microCode =
                [a \in 0..(MICROCODE_SIZE - 1) |->
                    IF a >= Len(lines) THEN 0
                    ELSE stored(toNumber(lines[a + 1]))],
            !.instructionNames =
                [k \in (DOMAIN initInstructionNames)
                        \cup (0..(named - 1)) |->
                    IF k < named THEN lines[MICROCODE_SIZE + k + 1]
                    ELSE initInstructionNames[k]]])

\* importLegacyMicroCode: a file with too few lines is refused; otherwise
\* the first MICROCODE_SIZE lines are the entries (an invalid one becomes
\* 0) and every further line is the name of the opcode it is counted at
importLegacyMicroCode(m, fileLines) ==
    LET lines == legacyLines(fileLines)
        invalid(value) ==
            \/ ~value.fin
            \/ value.h % 2 # 0
            \/ value.h < 0
            \/ value.h > 2 * 19
            \/ value.h = 2 * 6
        stored(value) == IF invalid(value) THEN 0 ELSE value.h \div 2
        named == Len(lines) - MICROCODE_SIZE
    IN  IF Len(lines) < MICROCODE_SIZE THEN [m EXCEPT !.err = "error"]
        ELSE saveProject([m EXCEPT
                 !.microCode =
                     [a \in 0..(MICROCODE_SIZE - 1) |->
                         stored(toNumber(lines[a + 1]))],
                 !.instructionNames =
                     [k \in (DOMAIN initInstructionNames)
                             \cup (0..(named - 1)) |->
                         IF k < named THEN lines[MICROCODE_SIZE + k + 1]
                         ELSE initInstructionNames[k]]])

\* exportLegacyMicroCode: the lines of [...microCode,
\* ...Object.values(instructionNames)].join('\n'): every entry as a
\* numeral, then the names in ascending order of their opcodes, without
\* the opcodes
exportLegacyMicroCode(m) ==
    LET opcodes == DOMAIN m.instructionNames
        opcodeAt(i) ==
            CHOOSE k \in opcodes : Cardinality({j \in opcodes : j < k}) = i - 1
        numeral(value) ==
            IF value < FractionBase THEN ToString(value)
            ELSE ToString(value - FractionBase) \o ".5"
    IN  [i \in 1..MICROCODE_SIZE |-> numeral(m.microCode[i - 1])]
          \o [i \in 1..Cardinality(opcodes) |->
                m.instructionNames[opcodeAt(i)]]

\* the "upload microcode" button: importLegacyMicroCode and resetSimulator
uploadMicroCodeAsFile(m, fileLines) ==
    LET m1 == importLegacyMicroCode(m, fileLines)
    IN  [resetSimulator(m1) EXCEPT !.err = m1.err]

\* the .mc files that are uploaded: the export of the default project; a
\* file of 150 lines; a file with comments, blank lines and entries that
\* are not valid (6, 20, -1, 5.5, a word) and a twelfth name; a file with
\* 21 names
MicroCodeFiles ==
    LET entries == [i \in 1..MICROCODE_SIZE |-> ToString(initMicroCode[i - 1])]
        names == [i \in 1..11 |-> initInstructionNames[i - 1]]
    IN  << entries \o names,
           SubSeq(entries, 1, 150),
           << "# microcode", "8 # pc->ab", "", " 2", "6", "20", "-1", "5.5",
              "ten", "19" >>
             \o SubSeq(entries, 10, MICROCODE_SIZE) \o names \o << "MUL" >>,
           entries \o names \o [i \in 1..10 |-> "X" \o ToString(i)] >>

UploadMicroCode(i) ==
    LET m == uploadMicroCodeAsFile(Machine, MicroCodeFiles[i])
    IN  /\ nManual < MaxEdits
        /\ nManual' = nManual + 1
        /\ Apply(m)
        /\ lastOp' = Op("importLegacyMicroCode", i, m)
        /\ UNCHANGED << fixRamAfterShift, pendingTicks >>

MicroCodeInit == LoadedInit({initRam}, {0}, {0}, {0})

\* The recorder is switched on and off before the edits that are counted;
\* the uploaded snapshots are those that differ in their microCode field.
MicroCodeNext ==
    \/ \E address \in {-1, MICROCODE_SIZE - 1, MICROCODE_SIZE},
          value \in {-1, 0, 6, 19, 20, Fraction(5)} :
          SetMicroCode(address, value)
    \/ \E i \in {2, 4, 5} : nManual = 0 /\ ToggleRecording(i, 1)
    \/ \E id \in {2, 7} : ManualMicroStep(id)
    \/ \E i \in {1, 8, 9, 11} : UploadProject(i)
    \/ \E i \in 1..Len(MicroCodeFiles) : UploadMicroCode(i)
    \/ ResetMicrocodeToDefault

MicroCodeSpec == MicroCodeInit /\ [][MicroCodeNext]_vars

\* ------------------------------ one instruction (InstructionSpec)
\* The stored RAM holds one instruction word of every opcode 0..19 at
\* address p, reached by a JMP p at address 0 (p = 0: the word is at 0),
\* and a data word at its operand address.
InstructionInit ==
    LoadedInit({ [[initRam EXCEPT ![0] = 5000 + p]
                    EXCEPT ![a] = w, ![p] = opcode * 1000 + a] :
                   p \in {0, 1, RAM_SIZE - 3, RAM_SIZE - 2},
                   opcode \in 0..19,
                   a \in {500, RAM_SIZE - 1},
                   w \in {0, 1, MAX_RAM_VALUE} },
               {0}, {0, MAX_RAM_VALUE}, {0})

InstructionNext == MacroStep \/ MicroStep

InstructionSpec == InstructionInit /\ [][InstructionNext]_vars

\* ------------------------------------- edited microcode (LoopSpec)
\* micro- and macro-steps of the stored programs after one entry of the
\* TAKE block or of the HLT block was replaced by a micro-instruction id
LoopNext ==
    \/ \E address \in {10, 100}, value \in {2, 5, 7, 19} :
          SetMicroCode(address, value)
    \/ MicroStep
    \/ MacroStep

LoopSpec == Init /\ [][LoopNext]_vars

\* ------------------------------------ a halted machine (HaltSpec)
\* The stored program TAKE 3; HLT is stepped and run until it halts, with
\* the buttons, the recorder, the project setters and the row operations
\* used before and after the halt.
HaltNext ==
    \/ MicroStep
    \/ MacroStep
    \/ runMacroProgram
    \/ Tick
    \/ ResetSimulator
    \/ \E id \in {7, 19} : ManualMicroStep(id)
    \/ nManual = 0 /\ ToggleRecording(3, 1)
    \/ SetRam(2, 7)
    \/ SetMicroCode(MICROCODE_SIZE - 1, 19)
    \/ InsertRamRowAbove
    \/ DeleteRamRow

HaltSpec ==
    /\ LoadedInit({RamImage(<< 1003, 10000, 0, 5 >>, 0)}, {0}, {0}, {0})
    /\ [][HaltNext]_vars

\* ------------------------------------ writers of the names (NamesSpec)
\* The recorder is switched on and off before the edits that are counted;
\* the uploaded snapshots are those that differ in their instructionNames
\* field.
NamesNext ==
    \/ \E opCode \in {-1, 11, MICROCODE_SIZE \div 10},
          j \in 1..Len(SetNameTexts) : SetInstructionName(opCode, j)
    \/ \E i \in {2, 4, 5}, j \in {2, 3, 6} :
          nManual = 0 /\ ToggleRecording(i, j)
    \/ \E i \in {1, 10, 12} : UploadProject(i)
    \/ \E i \in 1..Len(MicroCodeFiles) : UploadMicroCode(i)
    \/ ResetMicrocodeToDefault

NamesSpec == MicroCodeInit /\ [][NamesNext]_vars

\* ------------------------------------- recording a macro (RecorderSpec)
\* The micro-instruction buttons pressed in a session that records: the
\* first MaxRecords presses are of the buttons 2 and 7, the press after
\* them is of any button.
RecordedMicroStep(id) ==
    LET m == manualMicroStep(Machine, id)
    IN  /\ \/ nManual < MaxRecords /\ id \in {2, 7}
           \/ nManual = MaxRecords
        /\ nManual' = nManual + 1
        /\ Apply(m)
        /\ lastOp' = Op("manualStep", id, m)
        /\ UNCHANGED << fixRamAfterShift, pendingTicks >>

\* The record button is pressed before the first micro-instruction button,
\* with the address of one of the last two blocks or with 185.
RecorderNext ==
    \/ \E i \in {3, 4, 5} :
          nManual = 0 /\ ~isRecording /\ ToggleRecording(i, 1)
    \/ \E id \in ManualIds : RecordedMicroStep(id)

RecorderSpec == MicroCodeInit /\ [][RecorderNext]_vars

\* ------------------------------------------ the record button (ToggleSpec)
\* The record button with everything the two fields may hold; a recording
\* is started on the default names and stopped at any time.
ToggleNext ==
    \/ \E i \in 1..Len(RecordAddressTexts), j \in 1..Len(RecordNameTexts) :
          /\ isRecording \/ instructionNames = initInstructionNames
          /\ ToggleRecording(i, j)
    \/ \E id \in {2, 7} : ManualMicroStep(id)

ToggleSpec == MicroCodeInit /\ [][ToggleNext]_vars

\* ------------------- the writers with a failing storage (StorageSpec)
\* the quota of the origin is used up (by another page, or by the browser's
\* settings): from now on localStorage.setItem throws
StorageFills ==
    /\ ~localStorage.full
    /\ localStorage' = [localStorage EXCEPT !.full = TRUE]
    /\ lastOp' = Op("storageFills", 0, Machine)
    /\ UNCHANGED << projectVars, registerVars, selectedRamAddress,
                    lastAccessedRamAddress, isHlt, isMacroRunning,
                    isRecording, recordMicroCodeAddress, fixRamAfterShift,
                    pendingTicks, nManual >>

StorageNext ==
    \/ StorageFills
    \/ \E address \in SetRamAddresses, value \in SetRamValues :
          SetRam(address, value)
    \/ \E address \in {-1, MICROCODE_SIZE - 1, MICROCODE_SIZE},
          value \in {-1, 0, 6, 19, 20} : SetMicroCode(address, value)
    \/ \E opCode \in {-1, 11, MICROCODE_SIZE \div 10},
          j \in 1..Len(SetNameTexts) : SetInstructionName(opCode, j)
    \/ ResetRamToEmpty
    \/ ResetMicrocodeToDefault
    \/ \E i \in {1, 4, 8} : UploadProject(i)
    \/ \E i \in 1..Len(RamFiles) : UploadRam(i)
    \/ \E i \in 1..Len(MicroCodeFiles) : UploadMicroCode(i)

StorageSpec == RamInit /\ [][StorageNext]_vars

\* ------------------------------------------------------------ properties
\* the handler that just ran executed a macro-step (singleMacroStep)
RanMacroStep == lastOp'.steps > 0

Min(a, b) == IF a < b THEN a ELSE b

Max(a, b) == IF a > b THEN a ELSE b

Count(tr, id) == Cardinality({i \in 1..Len(tr) : tr[i] = id})

\* C1: a write of a value in [0, MAX_RAM_VALUE] at an address in
\* [0, RAM_SIZE) succeeds, a read of that address then returns the value and
\* no other address changes; a write with the address or the value out of
\* range fails and leaves the RAM as it was.
C1_SetRam ==
    [][ lastOp'.op = "setRam"
        => LET address == lastOp'.arg
               value == lastOp'.val
           IN  IF address \in 0..(RAM_SIZE - 1) /\ value \in 0..MAX_RAM_VALUE
               THEN /\ lastOp'.err = "none"
                    /\ ~getRamThrows(address)
                    /\ getRam(ram', address) = value
                    /\ \A other \in (0..(RAM_SIZE - 1)) \ {address} :
                           ram'[other] = ram[other]
               ELSE /\ lastOp'.err = "throw"
                    /\ ram' = ram ]_vars

\* the largest value written at the last address
C1_Witness ==
    /\ lastOp.op = "setRam"
    /\ lastOp.arg = RAM_SIZE - 1
    /\ lastOp.val = MAX_RAM_VALUE
    /\ lastOp.err = "none"
    /\ ram[RAM_SIZE - 1] = MAX_RAM_VALUE

\* C11: a micro-step of a machine that is not halted and finds the value 0
\* at MicroCodeCounter halts the machine, clears Running, executes nothing
\* and changes no register (MicroCodeCounter included), no RAM word and no
\* microcode entry; a zero-entry fault is reported in no other situation.
C11_ZeroMicroCode ==
    [][ /\ (/\ lastOp'.op = "microStep"
            /\ ~isHlt
            /\ microCode[microCodeCounter] = 0)
           => (/\ isHlt'
               /\ ~isMacroRunning'
               /\ lastOp'.err = "ZeroMicroCode"
               /\ lastOp'.trace = << >>
               /\ UNCHANGED << registerVars, ram, microCode >>)
        /\ lastOp'.err = "ZeroMicroCode"
           => (/\ isHlt'
               /\ ~isMacroRunning'
               /\ microCode'[microCodeCounter'] = 0) ]_vars

\* the micro-step after the jump into the unprogrammed block of opcode 11
C11_Witness ==
    /\ lastOp.op = "microStep"
    /\ lastOp.err = "ZeroMicroCode"
    /\ microCodeCounter = 110
    /\ getDataHigh(instructionRegister) = 11
    /\ isHlt

\* C12: the accumulator's arithmetic saturates: micro-op 13 yields
\* min(Accumulator + DataBus, MAX_RAM_VALUE), 16 yields
\* min(Accumulator + 1, MAX_RAM_VALUE), 14 yields max(Accumulator - DataBus, 0)
\* and 17 yields max(Accumulator - 1, 0).
C12_Saturation ==
    [][ lastOp'.op = "manualStep"
        => /\ lastOp'.arg = 13
              => accumulator' = Min(accumulator + dataBus, MAX_RAM_VALUE)
           /\ lastOp'.arg = 16
              => accumulator' = Min(accumulator + 1, MAX_RAM_VALUE)
           /\ lastOp'.arg = 14
              => accumulator' = Max(accumulator - dataBus, 0)
           /\ lastOp'.arg = 17
              => accumulator' = Max(accumulator - 1, 0) ]_vars

\* an addition of MAX_RAM_VALUE - 1 that ended at the upper bound
C12_Witness ==
    /\ lastOp.op = "manualStep"
    /\ lastOp.arg = 13
    /\ dataBus = MAX_RAM_VALUE - 1
    /\ accumulator = MAX_RAM_VALUE
    /\ nManual = 1

\* C13: for every word in [0, MAX_RAM_VALUE] the opcode is word div
\* RAM_SIZE, the operand is word mod RAM_SIZE and opcode * RAM_SIZE +
\* operand is the word; the transfers ins->ab, ins->mc and ins->pc deliver
\* these parts.
C13_OpcodeOperand ==
    [][ LET word == instructionRegister
        IN  /\ getDataHigh(word) = word \div RAM_SIZE
            /\ getDataLow(word) = word % RAM_SIZE
            /\ getDataHigh(word) * RAM_SIZE + getDataLow(word) = word
            /\ lastOp'.op = "manualStep"
               => /\ lastOp'.arg = 4 => addressBus' = word % RAM_SIZE
                  /\ lastOp'.arg = 5
                     => microCodeCounter' = (word \div RAM_SIZE) * 10
                  /\ lastOp'.arg = 11 => programCounter' = word % RAM_SIZE
      ]_vars

\* the operand of the largest word on the address bus
C13_Witness ==
    /\ lastOp.op = "manualStep"
    /\ lastOp.arg = 4
    /\ instructionRegister = MAX_RAM_VALUE
    /\ addressBus = RAM_SIZE - 1

\* C14: after any sequence of setMicroCode calls, recorded micro-steps,
\* snapshot imports, legacy .mc imports and resets every entry of the
\* microcode is one of 0..5, 7..19; no entry is 6.
C14_MicroCodeValid ==
    \A a \in 0..(MICROCODE_SIZE - 1) : microCode[a] \in (0..5) \cup (7..19)

\* C15: after any sequence of RAM writes (setRam, row insertion and deletion
\* with the operand fix-up on or off, micro-op 1 and the manual RAM input,
\* snapshot import, legacy .ram import, reset) every RAM word is in
\* [0, MAX_RAM_VALUE].
C15_RamInRange ==
    \A a \in 0..(RAM_SIZE - 1) : ram[a] >= 0 /\ ram[a] <= MAX_RAM_VALUE

\* a row was inserted above the largest word with the fix-up on: the word
\* moved down and its operand, which cannot be increased, is as it was
C15_Witness ==
    /\ lastOp.op = "insertRow"
    /\ lastOp.err = "throw"
    /\ fixRamAfterShift
    /\ ram[0] = 0
    /\ ram[1] = MAX_RAM_VALUE

\* C16: after any sequence of setInstructionName calls, recorder starts,
\* snapshot imports, legacy .mc imports and resets every entry of the
\* instruction names has an opcode in [0, MICROCODE_SIZE / 10) and a name
\* of 1 to 5 characters.
C16_NamesValid ==
    \A k \in DOMAIN instructionNames :
        /\ k >= 0
        /\ k < MICROCODE_SIZE \div 10
        /\ Len(instructionNames[k]) >= 1
        /\ Len(instructionNames[k]) <= 5

\* C17: in every reachable state, importing what export() returns restores
\* the same RAM, microcode and instruction names: trimming the trailing
\* zeros and padding with zeros is the identity on the arrays.
C17_ExportImport ==
    LET m == import(Machine, parse(export(Machine)))
    IN  /\ m.err = "none"
        /\ m.ram = ram
        /\ m.microCode = microCode
        /\ m.instructionNames = instructionNames

\* a row was inserted at address 0: the exported RAM starts with a zero
\* and ends at the last used word, the exported microcode is trimmed
C17_Witness ==
    /\ lastOp.op = "insertRow"
    /\ ram[0] = 0
    /\ Len(export(Machine).ram) = 4
    /\ Len(export(Machine).microCode) < MICROCODE_SIZE

\* C18: a successful start of the recorder at address a with a name puts the
\* cursor at a, stores the name for opcode a / 10 and leaves the microcode as
\* it is; every recorded micro-step with the cursor below MICROCODE_SIZE
\* writes its id at the cursor, moves the cursor on by one and leaves every
\* other microcode entry and the names unchanged, without a check of the
\* block boundary.
C18_RecordSequence ==
    [][/\ (lastOp'.op = "toggleRecording" /\ isRecording')
            => LET a == toNumber(trim(RecordAddressTexts[lastOp'.arg])).h
                        \div 2
               IN  /\ recordMicroCodeAddress' = a
                   /\ a \div 10 \in DOMAIN instructionNames'
                   /\ instructionNames'[a \div 10]
                          = trim(RecordNameTexts[lastOp'.val])
                   /\ \A k \in (DOMAIN instructionNames) \ {a \div 10} :
                          /\ k \in DOMAIN instructionNames'
                          /\ instructionNames'[k] = instructionNames[k]
                   /\ microCode' = microCode
       /\ (/\ lastOp'.op = "manualStep"
           /\ isRecording
           /\ lastOp'.arg \in MicroInstructionIds
           /\ recordMicroCodeAddress < MICROCODE_SIZE)
            => /\ microCode' = [microCode EXCEPT
                                  ![recordMicroCodeAddress] = lastOp'.arg]
               /\ recordMicroCodeAddress' = recordMicroCodeAddress + 1
               /\ instructionNames' = instructionNames
               /\ isRecording']_vars

\* eleven micro-steps recorded from address 180: the last one was written
\* into the next block
C18_Witness ==
    /\ isRecording
    /\ lastOp.op = "manualStep"
    /\ nManual = 11
    /\ recordMicroCodeAddress = 191
    /\ microCode[190] = lastOp.arg
    /\ microCode[180] \in {2, 7}
    /\ 18 \in DOMAIN instructionNames
    /\ instructionNames[18] = "MUL"

\* C19: the record button starts a recording only if the address is a
\* multiple of 10 in [0, MICROCODE_SIZE - 10] and the trimmed name has 1 to
\* 5 characters; after a failed start the recorder is off, the cursor is
\* null and the names and the microcode are unchanged.
C19_StartValidation ==
    [][(lastOp'.op = "toggleRecording" /\ ~isRecording)
         => LET address == toNumber(trim(RecordAddressTexts[lastOp'.arg]))
                name == trim(RecordNameTexts[lastOp'.val])
            IN  /\ isRecording'
                     => /\ address.fin
                        /\ address.h % 20 = 0
                        /\ address.h >= 0
                        /\ address.h <= 2 * (MICROCODE_SIZE - 10)
                        /\ Len(name) >= 1
                        /\ Len(name) <= 5
                /\ ~isRecording'
                     => /\ lastOp'.err = "RecordingConfigError"
                        /\ recordMicroCodeAddress' = Null
                        /\ instructionNames' = instructionNames
                        /\ microCode' = microCode]_vars

\* a start with the address of a block and a name of six characters failed
C19_Witness ==
    /\ lastOp.op = "toggleRecording"
    /\ lastOp.arg = 3
    /\ lastOp.val = 6
    /\ lastOp.err = "RecordingConfigError"
    /\ ~isRecording
    /\ recordMicroCodeAddress = Null
    /\ instructionNames = initInstructionNames

\* C20 as stated: a manual micro-step of a valid id that auto-increments
\* leaves the micro-code counter as it was, and whenever the recorder is on
\* the id is written at the cursor, which moves on by one.
C20_ManualStepRecorded ==
    [][(lastOp'.op = "manualStep" /\ lastOp'.arg \in MicroInstructionIds)
         => /\ MicroInstructionIncrement(lastOp'.arg)
                 => microCodeCounter' = microCodeCounter
            /\ isRecording
                 => /\ recordMicroCodeAddress' = recordMicroCodeAddress + 1
                    /\ recordMicroCodeAddress \in DOMAIN microCode'
                    /\ microCode'[recordMicroCodeAddress] = lastOp'.arg]_vars

\* C20, with the cursor below MICROCODE_SIZE: a manual micro-step of a valid
\* id that auto-increments leaves the micro-code counter as it was; if the
\* recorder is on and its cursor is below MICROCODE_SIZE the id is written
\* at the cursor, which moves on by one; with the cursor at MICROCODE_SIZE
\* the micro-op is executed and nothing is recorded.
C20_ManualStepRecordedInRange ==
    [][(lastOp'.op = "manualStep" /\ lastOp'.arg \in MicroInstructionIds)
         => /\ MicroInstructionIncrement(lastOp'.arg)
                 => microCodeCounter' = microCodeCounter
            /\ lastOp'.trace = << lastOp'.arg >>
            /\ (isRecording /\ recordMicroCodeAddress < MICROCODE_SIZE)
                 => /\ recordMicroCodeAddress' = recordMicroCodeAddress + 1
                    /\ microCode'[recordMicroCodeAddress] = lastOp'.arg
            /\ (isRecording /\ recordMicroCodeAddress = MICROCODE_SIZE)
                 => /\ lastOp'.err = "throw"
                    /\ recordMicroCodeAddress' = recordMicroCodeAddress
                    /\ microCode' = microCode]_vars

\* micro-op 9 was executed by its button while the recorder was on: the
\* program counter moved, the counter did not, and 9 is the entry before
\* the cursor, in the block after the one the recording started in
C20_Witness ==
    /\ lastOp.op = "manualStep"
    /\ lastOp.arg = 9
    /\ lastOp.err = "none"
    /\ isRecording
    /\ programCounter = 1
    /\ microCodeCounter = 0
    /\ recordMicroCodeAddress > 190
    /\ recordMicroCodeAddress < MICROCODE_SIZE
    /\ microCode[recordMicroCodeAddress - 1] = 9

\* C21: with the fix-up disabled, a last used address below RAM_SIZE - 1
\* and a selected row not above it, insertRamRowAbove clears the selected
\* row, moves every word from the selected row to the last used one down
\* by one row and leaves every other address unchanged.
C21_InsertShift ==
    [][LET last == getLastUsedRamAddress(ram)
           selected == selectedRamAddress
       IN  (/\ lastOp'.op = "insertRow"
            /\ ~fixRamAfterShift
            /\ last # -1
            /\ last < RAM_SIZE - 1
            /\ selected <= last)
             => /\ ram'[selected] = 0
                /\ \A i \in selected..last : ram'[i + 1] = ram[i]
                /\ \A a \in 0..(RAM_SIZE - 1) :
                      (a < selected \/ a > last + 1) => ram'[a] = ram[a]
                /\ lastOp'.err = "none"]_vars

\* a row was inserted above row 2 of the program TAKE 4; ADD 4; SAVE 5; HLT;
\* 19000
C21_Witness ==
    /\ lastOp.op = "insertRow"
    /\ lastOp.arg = 2
    /\ ~fixRamAfterShift
    /\ ram[0] = 1004
    /\ ram[1] = 2004
    /\ ram[2] = 0
    /\ ram[3] = 4005
    /\ ram[4] = 10000
    /\ ram[5] = 19000
    /\ ram[6] = 0

\* C22: insertRamRowAbove leaves the RAM (and the stored project) as it is
\* when the RAM is all zero, without a report, and when the last used
\* address is RAM_SIZE - 1, with the report that the RAM is full, for every
\* selected row and with the fix-up enabled or disabled.
C22_InsertRefused ==
    [][LET last == getLastUsedRamAddress(ram)
       IN  (lastOp'.op = "insertRow" /\ (last = -1 \/ last = RAM_SIZE - 1))
             => /\ ram' = ram
                /\ localStorage' = localStorage
                /\ lastOp'.err = IF last = -1 THEN "none" ELSE "MemoryFull"]_vars

\* the insertion into the RAM whose last row is used was refused, with the
\* fix-up enabled and the first row selected
C22_Witness ==
    /\ lastOp.op = "insertRow"
    /\ lastOp.err = "MemoryFull"
    /\ lastOp.arg = 0
    /\ fixRamAfterShift
    /\ ram[0] = 5999
    /\ ram[RAM_SIZE - 1] = 9998

\* C23: with the fix-up enabled, insertRamRowAbove and deleteRamRow that
\* shift rewrite every word whose opcode (after the shift) is neither 0 nor
\* 10 and whose operand is at least the selected address: its operand is
\* increased (insert) or decreased (delete) by exactly 1 and its opcode is
\* unchanged; every other word keeps the value the shift gave it.
C23_FixOperands ==
    [][LET last == getLastUsedRamAddress(ram)
           selected == selectedRamAddress
           insert == lastOp'.op = "insertRow"
           delta == IF insert THEN 1 ELSE -1
           shifted == IF insert THEN insertRamRowAbove(Machine, FALSE).ram
                      ELSE deleteRamRow(Machine, FALSE).ram
       IN  (/\ lastOp'.op \in {"insertRow", "deleteRow"}
            /\ fixRamAfterShift
            /\ last # -1
            /\ insert => last < RAM_SIZE - 1)
             => \A a \in 0..(RAM_SIZE - 1) :
                   IF /\ getDataHigh(shifted[a]) \notin {0, 10}
                      /\ getDataLow(shifted[a]) >= selected
                   THEN /\ getDataHigh(ram'[a]) = getDataHigh(shifted[a])
                        /\ getDataLow(ram'[a]) = getDataLow(shifted[a]) + delta
                   ELSE ram'[a] = shifted[a]]_vars

\* C24: with the fix-up disabled and a selected row not above the last used
\* one, deleteRamRow moves every word below the selected row up to the last
\* used one up by one row, clears the last used row and leaves every other
\* address unchanged; on an all-zero RAM it changes nothing.
C24_DeleteShift ==
    [][LET last == getLastUsedRamAddress(ram)
           selected == selectedRamAddress
       IN  /\ (/\ lastOp'.op = "deleteRow"
               /\ ~fixRamAfterShift
               /\ last # -1
               /\ selected <= last)
                => /\ \A i \in selected..(last - 1) : ram'[i] = ram[i + 1]
                   /\ ram'[last] = 0
                   /\ \A a \in 0..(RAM_SIZE - 1) :
                         (a < selected \/ a > last) => ram'[a] = ram[a]
                   /\ lastOp'.err = "none"
           /\ (lastOp'.op = "deleteRow" /\ last = -1)
                => /\ ram' = ram
                   /\ localStorage' = localStorage
                   /\ lastOp'.err = "none"]_vars

\* row 2 of the program TAKE 4; ADD 4; SAVE 5; HLT; 19000 was deleted
C24_Witness ==
    /\ lastOp.op = "deleteRow"
    /\ lastOp.arg = 2
    /\ ~fixRamAfterShift
    /\ ram[0] = 1004
    /\ ram[1] = 2004
    /\ ram[2] = 10000
    /\ ram[3] = 19000
    /\ ram[4] = 0

\* C25: the upload of a legacy .ram file stores the k-th line that is
\* neither blank nor a comment, without its inline comment, at address
\* k - 1, stores 0 for a token that is not an integer in [0, MAX_RAM_VALUE],
\* ignores the data lines beyond RAM_SIZE and clears every address the
\* file does not supply.  The three uploaded files give: 9006, 19999, 0,
\* 0, 0, 0, 7 from address 0 on; the last digit of address + 1 at every
\* address; the empty RAM.
C25_LegacyRamImport ==
    [][lastOp'.op = "importLegacyRam"
         => /\ lastOp'.err = "none"
            /\ lastOp'.arg = 1
                 => ram' = RamImage(<< 9006, 19999, 0, 0, 0, 0, 7 >>, 0)
            /\ lastOp'.arg = 2
                 => ram' = [a \in 0..(RAM_SIZE - 1) |-> (a + 1) % 10]
            /\ lastOp'.arg = 3 => ram' = initRam]_vars

\* the file with comments, blank lines and invalid tokens was uploaded:
\* address 2 holds 0, the last data line is at address 6
C25_Witness ==
    /\ lastOp.op = "importLegacyRam"
    /\ lastOp.arg = 1
    /\ ram[0] = 9006
    /\ ram[1] = 19999
    /\ ram[2] = 0
    /\ ram[6] = 7
    /\ ram[7] = 0
    /\ localStorage.present
    /\ localStorage.ram = << 9006, 19999, 0, 0, 0, 0, 7 >>

\* C26: the upload of a legacy .mc file with fewer than MICROCODE_SIZE
\* lines is refused with an error report: the microcode, the instruction
\* names and the stored project are what they were before.
C26_ShortMicroCodeFile ==
    [][(/\ lastOp'.op = "importLegacyMicroCode"
        /\ Len(MicroCodeFiles[lastOp'.arg]) < MICROCODE_SIZE)
         => /\ lastOp'.err = "error"
            /\ microCode' = microCode
            /\ instructionNames' = instructionNames
            /\ localStorage' = localStorage]_vars

\* the file of 150 lines was refused after the recorder had named opcode
\* 11: the name is still there
C26_Witness ==
    /\ lastOp.op = "importLegacyMicroCode"
    /\ lastOp.arg = 2
    /\ lastOp.err = "error"
    /\ 11 \in DOMAIN instructionNames
    /\ instructionNames[11] = "MUL"
    /\ microCode = initMicroCode

\* C27: setMicroCode(address, value) throws and leaves the microcode as it
\* is if the address is outside [0, MICROCODE_SIZE) or the value is not in
\* {0..5, 7..19}, and otherwise stores the value at the address and changes
\* no other entry; setInstructionName(opCode, name) throws and leaves the
\* names as they are if the opcode is outside [0, MICROCODE_SIZE / 10) or
\* the name is blank or longer than 5 characters, and otherwise stores the
\* name as given for the opcode and changes no other name.
C27_SetterValidation ==
    [][/\ lastOp'.op = "setMicroCode"
            => IF /\ lastOp'.arg \in 0..(MICROCODE_SIZE - 1)
                  /\ lastOp'.val \in (0..5) \cup (7..19)
               THEN /\ lastOp'.err = "none"
                    /\ microCode' = [microCode EXCEPT
                                       ![lastOp'.arg] = lastOp'.val]
               ELSE /\ lastOp'.err = "throw"
                    /\ microCode' = microCode
       /\ lastOp'.op = "setInstructionName"
            => LET name == SetNameTexts[lastOp'.val]
               IN  IF /\ lastOp'.arg \in 0..((MICROCODE_SIZE \div 10) - 1)
                      /\ trim(name) # ""
                      /\ Len(name) <= 5
                   THEN /\ lastOp'.err = "none"
                        /\ lastOp'.arg \in DOMAIN instructionNames'
                        /\ instructionNames'[lastOp'.arg] = name
                        /\ \A k \in (DOMAIN instructionNames) \ {lastOp'.arg} :
                              /\ k \in DOMAIN instructionNames'
                              /\ instructionNames'[k] = instructionNames[k]
                        /\ DOMAIN instructionNames'
                             = (DOMAIN instructionNames) \cup {lastOp'.arg}
                   ELSE /\ lastOp'.err = "throw"
                        /\ instructionNames' = instructionNames]_vars

\* C28: when the storage accepts no write, the stored item stays as it is
\* and every writer still completes as it does with a working storage: a
\* valid setRam, setMicroCode or setInstructionName stores its value
\* without an error, the resets install the defaults, and the uploads of
\* the valid snapshot and of the legacy files install their contents.
C28_SaveFails ==
    [][(localStorage.full /\ lastOp'.op # "storageFills")
         => /\ localStorage' = localStorage
            /\ (/\ lastOp'.op = "setRam"
                /\ lastOp'.arg \in 0..(RAM_SIZE - 1)
                /\ lastOp'.val \in 0..MAX_RAM_VALUE)
                 => /\ lastOp'.err = "none"
                    /\ ram' = [ram EXCEPT ![lastOp'.arg] = lastOp'.val]
            /\ (/\ lastOp'.op = "setMicroCode"
                /\ lastOp'.arg \in 0..(MICROCODE_SIZE - 1)
                /\ lastOp'.val \in (0..5) \cup (7..19))
                 => /\ lastOp'.err = "none"
                    /\ microCode' = [microCode EXCEPT
                                       ![lastOp'.arg] = lastOp'.val]
            /\ (/\ lastOp'.op = "setInstructionName"
                /\ lastOp'.arg = 11
                /\ lastOp'.val \in {1, 2})
                 => /\ lastOp'.err = "none"
                    /\ 11 \in DOMAIN instructionNames'
                    /\ instructionNames'[11] = SetNameTexts[lastOp'.val]
            /\ lastOp'.op = "resetRam"
                 => lastOp'.err = "none" /\ ram' = initRam
            /\ lastOp'.op = "resetMicroCode"
                 => /\ lastOp'.err = "none"
                    /\ microCode' = initMicroCode
                    /\ instructionNames' = initInstructionNames
            /\ (lastOp'.op = "import" /\ lastOp'.arg = 1)
                 => /\ lastOp'.err = "none"
                    /\ ram' = RamImage(<< 1002, 10000, 3 >>, 0)
                    /\ microCode'[Len(DefaultMicroCodeValues)] = 19
                    /\ DOMAIN instructionNames' = 0..11
                    /\ instructionNames'[11] = "MUL"
            /\ (lastOp'.op = "importLegacyRam" /\ lastOp'.arg = 1)
                 => /\ lastOp'.err = "none"
                    /\ ram' = RamImage(<< 9006, 19999, 0, 0, 0, 0, 7 >>, 0)
            /\ (lastOp'.op = "importLegacyMicroCode" /\ lastOp'.arg = 3)
                 => /\ lastOp'.err = "none"
                    /\ microCode'[0] = 8
                    /\ microCode'[2] = 0
                    /\ microCode'[7] = 19
                    /\ instructionNames'[10] = "MUL"]_vars

\* the largest word was stored at the last address while the storage was
\* full: the stored item is still the program loaded at the start
C28_Witness ==
    /\ lastOp.op = "setRam"
    /\ lastOp.err = "none"
    /\ lastOp.arg = RAM_SIZE - 1
    /\ ram[RAM_SIZE - 1] = MAX_RAM_VALUE
    /\ localStorage.full
    /\ localStorage.present
    /\ localStorage.ram = << MAX_RAM_VALUE, 2002, 10000 >>

C30_ProgramCounterSaturates ==
    [][LET id == IF lastOp'.op = "manualStep" THEN lastOp'.arg
                 ELSE IF lastOp'.op = "microStep" /\ Len(lastOp'.trace) = 1
                 THEN lastOp'.trace[1]
                 ELSE 0
       IN  /\ (id = 9 \/ (id = 10 /\ accumulator = 0))
                => programCounter' =
                     IF programCounter = RAM_SIZE - 1 THEN RAM_SIZE - 1
                     ELSE programCounter + 1
           /\ (id = 10 /\ accumulator # 0)
                => programCounter' = programCounter
           /\ id \in {9, 10} => accumulator' = accumulator]_vars

\* the control unit executed micro-op 10 with an accumulator of 0 and the
\* program counter at the last address: the counter is still there
C30_Witness ==
    /\ lastOp.op = "microStep"
    /\ lastOp.trace = << 10 >>
    /\ accumulator = 0
    /\ programCounter = RAM_SIZE - 1
    /\ instructionRegister = 6998
    /\ microCodeCounter = 64

\* C31: after every operation, unless the storage refuses writes, the
\* stored item is the export of the live project (its RAM and microcode
\* trimmed, its names); while nothing is stored the live project is the
\* default one, which is what a reload would construct.
C31_StoredIsExport ==
    ~localStorage.full
      => IF localStorage.present
         THEN localStorage = Item(toJSON(Machine))
         ELSE /\ ram = initRam
              /\ microCode = initMicroCode
              /\ instructionNames = initInstructionNames

\* C32: while the run loop is active at most one step() callback is
\* scheduled, so that one macro-step is executed per delay interval.
C32_SingleTickChain ==
    (isMacroRunning /\ ~isHlt) => pendingTicks <= 1

\* the registers, the memory and the flags of a machine, without the report
\* of the handler that produced it
Configuration(m) == [m EXCEPT !.err = "none", !.trace = << >>, !.steps = 0]

\* C33: with every microcode entry a micro-instruction id and Halted false,
\* a macro-step returns: its loop never arrives, MicroCodeCounter non-zero
\* and not halted, at a configuration that the next micro-step leaves as it
\* is (from which the loop condition stays true for ever).
C33_MacroStepTerminates ==
    (/\ ~isHlt
     /\ \A a \in 0..(MICROCODE_SIZE - 1) : microCode[a] \in MicroInstructionIds)
      => LET m == singleMacroStep(Machine)
         IN  ~(/\ m.err = "hang"
               /\ Configuration(microStep(m)) = Configuration(m))

\* C34: with the default microcode, MicroCodeCounter = 0 and Halted false,
\* a macro-step returns after at most 12 micro-steps, halted or with
\* MicroCodeCounter = 0.
C34_DefaultMacroStepBound ==
    (microCode = initMicroCode /\ microCodeCounter = 0 /\ ~isHlt)
      => LET m == singleMacroStep(Machine)
         IN  /\ m.err # "hang"
             /\ m.steps <= 12
             /\ m.isHlt \/ m.microCodeCounter = 0

\* a macro-step of 12 micro-steps (INC or DEC) has been executed
C34_Witness ==
    /\ lastOp.op = "macroStep"
    /\ lastOp.steps = 12
    /\ microCode = initMicroCode
    /\ microCodeCounter = 0
    /\ ~isHlt

\* C35: with the fix-up disabled, deleteRamRow changes no address below the
\* selected row and none above the last used one, and changes nothing at
\* all when the selected row is above the last used one.
C35_DeleteFrame ==
    [][LET last == getLastUsedRamAddress(ram)
           selected == selectedRamAddress
       IN  (lastOp'.op = "deleteRow" /\ ~fixRamAfterShift)
             => /\ \A a \in 0..(RAM_SIZE - 1) :
                      (a < selected \/ a > last) => ram'[a] = ram[a]
                /\ selected > last => ram' = ram]_vars

\* C36: a halted machine stays halted under every operation that does not
\* call resetSimulator (the reset button and the file uploads do), and run
\* invoked while halted neither sets Running nor schedules a step.
C36_HaltedStays ==
    [][ isHlt
        => /\ lastOp'.op \notin {"reset", "import", "importLegacyRam",
                                 "importLegacyMicroCode"} => isHlt'
           /\ lastOp'.op = "run"
                => /\ isMacroRunning' = isMacroRunning
                   /\ pendingTicks' = pendingTicks
                   /\ lastOp'.steps = 0 ]_vars

\* the recorder has written a manual step into the microcode of a halted
\* machine
C36_Witness ==
    /\ isHlt
    /\ lastOp.op = "manualStep"
    /\ lastOp.arg = 7
    /\ isRecording
    /\ microCode[180] = 7
    /\ ~isMacroRunning

\* C37: importLegacyMicroCode of the output of exportLegacyMicroCode
\* restores the microcode and the name of every opcode.
C37_LegacyMicroCodeRoundTrip ==
    LET m == importLegacyMicroCode(Machine, exportLegacyMicroCode(Machine))
    IN  /\ m.err = "none"
        /\ m.microCode = microCode
        /\ m.instructionNames = instructionNames

C39_RecordPastEnd ==
    (isRecording /\ recordMicroCodeAddress = MICROCODE_SIZE)
      => \A id \in MicroInstructionIds :
            LET m == recordMicroStep(Machine, id)
            IN  /\ m.err = "throw"
                /\ ~setMicroCode(microCode, MICROCODE_SIZE, id).ok
                /\ m.microCode = microCode
                /\ DOMAIN m.microCode = 0..(MICROCODE_SIZE - 1)
                /\ m.recordMicroCodeAddress = MICROCODE_SIZE
                /\ m.localStorage = localStorage

\* an eleventh manual step was pressed after ten had been recorded from
\* address 190 on
C39_Witness ==
    /\ lastOp.op = "manualStep"
    /\ lastOp.err = "throw"
    /\ isRecording
    /\ recordMicroCodeAddress = MICROCODE_SIZE
    /\ \A a \in 190..(MICROCODE_SIZE - 1) : microCode[a] \in {2, 7}

\* C40: with the default microcode, a macro-step from MicroCodeCounter = 0
\* at ProgramCounter p <= RAM_SIZE - 3 whose word is TST a loads Memory[a]
\* into the accumulator, advances the program counter by 2 when Memory[a]
\* is 0 and by 1 otherwise, leaves the memory unchanged and ends with
\* MicroCodeCounter = 0, not halted.
C40_TestInstruction ==
    [][ (/\ lastOp'.op = "macroStep"
         /\ microCode = initMicroCode
         /\ microCodeCounter = 0
         /\ ~isHlt
         /\ programCounter <= RAM_SIZE - 3
         /\ getDataHigh(ram[programCounter]) = 6)
        => LET a == getDataLow(ram[programCounter])
           IN  /\ accumulator' = ram[a]
               /\ programCounter' = IF ram[a] = 0 THEN programCounter + 2
                                    ELSE programCounter + 1
               /\ ram' = ram
               /\ microCodeCounter' = 0
               /\ ~isHlt' ]_vars

\* TST at address RAM_SIZE - 3 has found a zero word and skipped to the
\* last address
C40_Witness ==
    /\ lastOp.op = "macroStep"
    /\ lastOp.err = "none"
    /\ getDataHigh(instructionRegister) = 6
    /\ accumulator = 0
    /\ programCounter = RAM_SIZE - 1
    /\ ram[RAM_SIZE - 3] = instructionRegister
    /\ microCodeCounter = 0
    /\ ~isHlt

\* C2: after any sequence of operations every register is in its declared
\* range.
C2_RegistersInRange ==
    /\ addressBus \in 0..(RAM_SIZE - 1)
    /\ programCounter \in 0..(RAM_SIZE - 1)
    /\ dataBus \in 0..MAX_RAM_VALUE
    /\ accumulator \in 0..MAX_RAM_VALUE
    /\ instructionRegister \in 0..MAX_RAM_VALUE
    /\ microCodeCounter \in 0..(MICROCODE_SIZE - 1)

\* a macro-step whose addition 19000 + 19000 had to be clamped
C2_Witness ==
    /\ lastOp.op = "macroStep"
    /\ Count(lastOp.trace, 13) = 1
    /\ accumulator = MAX_RAM_VALUE
    /\ dataBus = 19000

\* C3: a micro-step that finds micro-op 5 with opcode(InstructionRegister)
\* = 0 halts with FetchFault instead of jumping; from the reset state with
\* the default microcode and an all-zero RAM the first macro-step executes
\* the fetch steps 8, 2, 3, loads InstructionRegister with 0 and halts.
C3_FetchFault ==
    [][ /\ (/\ lastOp'.op = "microStep"
            /\ ~isHlt
            /\ microCode[microCodeCounter] = 5
            /\ getDataHigh(instructionRegister) = 0)
           => (/\ isHlt'
               /\ lastOp'.err = "FetchFault"
               /\ lastOp'.trace = << >>
               /\ UNCHANGED << registerVars, ram >>)
        /\ lastOp'.err = "FetchFault"
           => (/\ isHlt'
               /\ ~isMacroRunning'
               /\ microCode'[microCodeCounter'] = 5
               /\ getDataHigh(instructionRegister') = 0)
        /\ (/\ lastOp'.op = "macroStep"
            /\ lastOp.op \in {"init", "reset"}
            /\ ram = initRam
            /\ microCode = initMicroCode)
           => (/\ lastOp'.trace = << 8, 2, 3 >>
               /\ instructionRegister' = 0
               /\ isHlt'
               /\ lastOp'.err = "FetchFault") ]_vars

C3_Witness ==
    /\ lastOp.op = "macroStep"
    /\ lastOp.err = "FetchFault"
    /\ lastOp.trace = << 8, 2, 3 >>
    /\ ram = initRam
    /\ isHlt

\* C4: dispatching id 6 or any id outside {0..5, 7..19} halts, clears
\* Running, raises InvalidMicroOp and changes no register and no RAM word.
C4_InvalidMicroOp ==
    [][ (\/ (lastOp'.op = "manualStep"
               /\ lastOp'.arg \notin ((0..5) \cup (7..19)))
         \/ lastOp'.err = "InvalidMicroOp")
        => (/\ isHlt'
            /\ ~isMacroRunning'
            /\ lastOp'.err = "InvalidMicroOp"
            /\ UNCHANGED << registerVars, ram >>) ]_vars

\* id 6 dispatched while the run loop was active
C4_Witness ==
    /\ lastOp.op = "manualStep"
    /\ lastOp.arg = 6
    /\ lastOp.err = "InvalidMicroOp"
    /\ isHlt
    /\ pendingTicks > 0

\* C5: an import that fails leaves the RAM, the microcode and the
\* instruction names exactly as they were before the call.
C5_ImportAtomic ==
    [][ (lastOp'.op = "import" /\ lastOp'.err # "none")
        => UNCHANGED projectVars ]_vars

\* C6: with the fix-up disabled and the last RAM slot free, inserting a row
\* above the selected address and then deleting the row at the selected
\* address gives back the RAM there was.
C6_InsertThenDelete ==
    (~fixRamAfterShift /\ ram[RAM_SIZE - 1] = 0)
    => deleteRamRow(insertRamRowAbove(Machine, fixRamAfterShift),
                    fixRamAfterShift).ram = ram

C8_HaltStopsRun ==
    /\ [][ (lastOp'.op = "tick" /\ isHlt)
            => (/\ lastOp'.steps = 0
                /\ lastOp'.trace = << >>
                /\ ~isMacroRunning'
                /\ UNCHANGED << registerVars, ram >>) ]_vars
    /\ (isHlt /\ isMacroRunning) ~> ~isMacroRunning

\* the tick after a stop micro-op found Halted and cleared Running
C8_Witness ==
    /\ lastOp.op = "tick"
    /\ lastOp.err = "halted"
    /\ isHlt
    /\ ~isMacroRunning

\* C9: a tick that starts a macro-step completes it, and a tick that fires
\* after Running was cleared executes no macro-step and changes nothing.
C9_Cancellation ==
    [][ lastOp'.op = "tick"
        => /\ ~isMacroRunning
              => (/\ lastOp'.steps = 0
                  /\ lastOp'.trace = << >>
                  /\ UNCHANGED << registerVars, ram, isHlt, isMacroRunning >>)
           /\ (isMacroRunning /\ ~isHlt)
              => (/\ lastOp'.steps >= 1
                  /\ microCodeCounter' = 0 \/ isHlt') ]_vars

\* the already scheduled tick fired after Running was cleared
C9_Witness ==
    /\ lastOp.op = "tick"
    /\ lastOp.err = "stopped"
    /\ ~isHlt
    /\ pendingTicks = 0

\* C10: when Halted, microStep changes no register, no RAM word and no
\* microcode entry, and Halted stays true.
C10_HaltedMicroStep ==
    [][ (lastOp'.op = "microStep" /\ isHlt)
        => (/\ isHlt'
            /\ lastOp'.trace = << >>
            /\ UNCHANGED << registerVars, ram, microCode >>) ]_vars

C10_Witness ==
    /\ lastOp.op = "microStep"
    /\ lastOp.err = "halted"
    /\ isHlt

====
